---- MODULE Spec2Model ----
(***************************************************************************)
(* Model of topology-tester: the request handlers of service.Endpoints     *)
(* (behaviour setters, proxy chaining, echo) and the concurrency emulator. *)
(*                                                                         *)
(* Strings that are parsed by the code (percentages, durations) are        *)
(* sequences of one-character strings, so that strconv.Atoi and            *)
(* time.ParseDuration are computed, not assumed.  Go's int and             *)
(* time.Duration are 64-bit two's complement numbers; they are kept as     *)
(* four 16-bit limbs, least significant first, so that the wrap-around of  *)
(* time.Duration(i) * time.Millisecond is the one the build produces.      *)
(***************************************************************************)
EXTENDS Integers, Sequences, FiniteSets, TLC

(***************************************************************************)
(* 64-bit integers                                                         *)
(***************************************************************************)
LimbBase == 2^16
HalfLimb == 2^15

Digits == {"0", "1", "2", "3", "4", "5", "6", "7", "8", "9"}

DigitVal(c) ==
  CASE c = "0" -> 0 [] c = "1" -> 1 [] c = "2" -> 2 [] c = "3" -> 3
    [] c = "4" -> 4 [] c = "5" -> 5 [] c = "6" -> 6 [] c = "7" -> 7
    [] c = "8" -> 8 [] c = "9" -> 9

\* A natural number below 2^31 as a 64-bit value.
I64(n) == <<n % LimbBase, n \div LimbBase, 0, 0>>

I64Zero == <<0, 0, 0, 0>>

\* The sign bit of a 64-bit two's complement value.
I64IsNeg(x) == x[4] >= HalfLimb

\* x * m + a on limbs, for 0 <= m <= 1000 and 0 <= a < LimbBase; the result
\* has one limb more than x (the carry out), nothing is dropped.
RECURSIVE MulAddLimbs(_, _, _)
MulAddLimbs(x, m, a) ==
  IF x = <<>> THEN <<a>>
  ELSE LET p == x[1] * m + a
       IN  <<p % LimbBase>> \o MulAddLimbs(Tail(x), m, p \div LimbBase)

\* x * m in 64-bit arithmetic: the carry out of the top limb is dropped,
\* which is Go's wrap-around of a signed 64-bit multiplication.
I64MulWrap(x, m) == SubSeq(MulAddLimbs(x, m, 0), 1, 4)

\* -x in 64-bit two's complement (invert every limb, add one).
I64Neg(x) ==
  LET inv == [i \in 1..4 |-> LimbBase - 1 - x[i]]
  IN  SubSeq(MulAddLimbs(inv, 1, 1), 1, 4)

\* The value of a non-negative 64-bit number that fits one limb pair, else -1.
I64Small(x) ==
  IF x[3] = 0 /\ x[4] = 0 /\ x[2] < HalfLimb THEN x[2] * LimbBase + x[1] ELSE -1

\* x < n and x > n for a small natural n, on 64-bit values.
I64Lt(x, n) == I64IsNeg(x) \/ (I64Small(x) # -1 /\ I64Small(x) < n)
I64Gt(x, n) == ~I64IsNeg(x) /\ (I64Small(x) = -1 \/ I64Small(x) > n)

(***************************************************************************)
(* Unbounded naturals (limb sequences of any length), for the magnitudes   *)
(* the parsers accumulate before their range checks.                       *)
(***************************************************************************)
RECURSIVE BigNorm(_)
BigNorm(x) ==
  IF x # <<>> /\ x[Len(x)] = 0 THEN BigNorm(SubSeq(x, 1, Len(x) - 1)) ELSE x

\* x > y on normalised limb sequences.
RECURSIVE BigGt(_, _)
BigGt(x, y) ==
  IF Len(x) # Len(y) THEN Len(x) > Len(y)
  ELSE IF x = <<>> THEN FALSE
  ELSE IF x[Len(x)] # y[Len(y)] THEN x[Len(x)] > y[Len(y)]
  ELSE BigGt(SubSeq(x, 1, Len(x) - 1), SubSeq(y, 1, Len(y) - 1))

BigMul(x, m) == BigNorm(MulAddLimbs(x, m, 0))

RECURSIVE BigMulAll(_, _)
BigMulAll(x, ms) ==
  IF ms = <<>> THEN x ELSE BigMulAll(BigMul(x, ms[1]), Tail(ms))

RECURSIVE BigAddC(_, _, _)
BigAddC(x, y, c) ==
  IF x = <<>> /\ y = <<>> THEN (IF c = 0 THEN <<>> ELSE <<c>>)
  ELSE LET a == IF x = <<>> THEN 0 ELSE x[1]
           b == IF y = <<>> THEN 0 ELSE y[1]
           t == a + b + c
       IN  <<t % LimbBase>>
             \o BigAddC(IF x = <<>> THEN x ELSE Tail(x),
                        IF y = <<>> THEN y ELSE Tail(y), t \div LimbBase)

BigAdd(x, y) == BigNorm(BigAddC(x, y, 0))

\* 1<<63, the cutoff of both parsers.
Big2p63 == <<0, 0, 0, HalfLimb>>

\* The decimal value of a sequence of digit characters.
RECURSIVE BigOfDigits(_, _)
BigOfDigits(ds, acc) ==
  IF ds = <<>> THEN BigNorm(acc)
  ELSE BigOfDigits(Tail(ds), BigNorm(MulAddLimbs(acc, 10, DigitVal(ds[1]))))

\* A magnitude of at most 1<<63 as the 64-bit pattern uint64 -> int64 keeps.
I64OfBig(x) == [i \in 1..4 |-> IF i <= Len(x) THEN x[i] ELSE 0]

AllDigits(s) == \A i \in 1..Len(s) : s[i] \in Digits

(***************************************************************************)
(* strconv.Atoi: an optional sign, then one or more decimal digits; a      *)
(* value outside int64 is a range error.  [ok, val]                        *)
(***************************************************************************)
Atoi(s) ==
  LET signed == s # <<>> /\ s[1] \in {"+", "-"}
      neg    == s # <<>> /\ s[1] = "-"
      body   == IF signed THEN Tail(s) ELSE s
      mag    == BigOfDigits(body, <<>>)
  IN  IF body = <<>> \/ ~AllDigits(body) THEN [ok |-> FALSE, val |-> I64Zero]
      ELSE IF neg /\ BigGt(mag, Big2p63) THEN [ok |-> FALSE, val |-> I64Zero]
      ELSE IF ~neg /\ ~BigGt(Big2p63, mag) THEN [ok |-> FALSE, val |-> I64Zero]
      ELSE [ok |-> TRUE,
            val |-> IF neg THEN I64Neg(I64OfBig(mag)) ELSE I64OfBig(mag)]

(***************************************************************************)
(* time.ParseDuration: an optional sign, then one or more groups of a      *)
(* decimal number and a unit.  The inputs of the model carry no decimal    *)
(* point, so a group is digits followed by a unit.                         *)
(***************************************************************************)
\* unitMap, each unit as the factors of its number of nanoseconds.
UnitFactors(u) ==
  CASE u = <<"n", "s">> -> <<>>
    [] u = <<"u", "s">> -> <<1000>>
    [] u = <<"m", "s">> -> <<1000, 1000>>
    [] u = <<"s">>      -> <<1000, 1000, 1000>>
    [] u = <<"m">>      -> <<1000, 1000, 1000, 60>>
    [] u = <<"h">>      -> <<1000, 1000, 1000, 60, 60>>

KnownUnits == {<<"n", "s">>, <<"u", "s">>, <<"m", "s">>, <<"s">>, <<"m">>, <<"h">>}

\* The length of the longest prefix of s of digits (d = TRUE) or of
\* non-digits (d = FALSE).
RECURSIVE RunLen(_, _)
RunLen(s, d) ==
  IF s = <<>> \/ ((s[1] \in Digits) # d) THEN 0 ELSE 1 + RunLen(Tail(s), d)

\* The loop over the groups; d is the magnitude accumulated so far.
RECURSIVE ParseGroups(_, _)
ParseGroups(s, d) ==
  IF s = <<>> THEN [ok |-> TRUE, mag |-> d]
  ELSE LET nd  == RunLen(s, TRUE)
           v   == BigOfDigits(SubSeq(s, 1, nd), <<>>)
           r   == SubSeq(s, nd + 1, Len(s))
           nu  == RunLen(r, FALSE)
           u   == SubSeq(r, 1, nu)
           bad == [ok |-> FALSE, mag |-> <<>>]
       IN  IF nd = 0 \/ BigGt(v, Big2p63) THEN bad
           ELSE IF nu = 0 \/ u \notin KnownUnits THEN bad
           ELSE LET w == BigMulAll(v, UnitFactors(u))
                    t == BigAdd(d, w)
                IN  IF BigGt(w, Big2p63) \/ BigGt(t, Big2p63) THEN bad
                    ELSE ParseGroups(SubSeq(r, nu + 1, Len(r)), t)

ParseDuration(s) ==
  LET signed == s # <<>> /\ s[1] \in {"+", "-"}
      neg    == s # <<>> /\ s[1] = "-"
      body   == IF signed THEN Tail(s) ELSE s
      g      == ParseGroups(body, <<>>)
  IN  IF body = <<"0">> THEN [ok |-> TRUE, val |-> I64Zero]
      ELSE IF body = <<>> \/ ~g.ok THEN [ok |-> FALSE, val |-> I64Zero]
      ELSE IF neg THEN [ok |-> TRUE, val |-> I64Neg(I64OfBig(g.mag))]
      ELSE IF ~BigGt(Big2p63, g.mag) THEN [ok |-> FALSE, val |-> I64Zero]
      ELSE [ok |-> TRUE, val |-> I64OfBig(g.mag)]

\* time.Duration(i) * time.Millisecond, in wrapping 64-bit arithmetic.
MilliOf(i) == I64MulWrap(I64MulWrap(i, 1000), 1000)

(***************************************************************************)
(* Strings.  A path is the sequence of its segments: "/a/b" is <<"a","b">>,*)
(* "/a/" is <<"a","">>, "/" is <<"">> and the empty path is <<>>.  A       *)
(* segment is named by a string; Chars gives its characters.               *)
(***************************************************************************)
Chars(s) ==
  CASE s = ""      -> <<>>
    [] s = "0"     -> <<"0">>
    [] s = "50"    -> <<"5", "0">>
    [] s = "100"   -> <<"1", "0", "0">>
    [] s = "101"   -> <<"1", "0", "1">>
    [] s = "-1"    -> <<"-", "1">>
    [] s = "+7"    -> <<"+", "7">>
    [] s = "abc"   -> <<"a", "b", "c">>
    [] s = "60"    -> <<"6", "0">>
    [] s = "60ms"  -> <<"6", "0", "m", "s">>
    [] s = "-5"    -> <<"-", "5">>
    [] s = "-5ms"  -> <<"-", "5", "m", "s">>
    [] s = "on"    -> <<"o", "n">>
    [] s = "OFF"   -> <<"O", "F", "F">>
    [] s = "maybe" -> <<"m", "a", "y", "b", "e">>
    [] s = "A"     -> <<"A">>
    [] s = "B"     -> <<"B">>
    [] s = "C"     -> <<"C">>
    [] s = "stub"  -> <<"s", "t", "u", "b">>
    [] s = "down"  -> <<"d", "o", "w", "n">>
    [] s = "a b"   -> <<"a", " ", "b">>
    [] s = "a?b"   -> <<"a", "?", "b">>
    [] s = "a%b"   -> <<"a", "%", "b">>
    [] s = "a"     -> <<"a">>
    [] s = "b"     -> <<"b">>
    [] s = "x"     -> <<"x">>
    [] s = "proxy"    -> <<"p", "r", "o", "x", "y">>
    [] s = "errors"   -> <<"e", "r", "r", "o", "r", "s">>
    [] s = "headers"  -> <<"h", "e", "a", "d", "e", "r", "s">>
    [] s = "latency"  -> <<"l", "a", "t", "e", "n", "c", "y">>
    [] s = "graceful" -> <<"g", "r", "a", "c", "e", "f", "u", "l">>
    [] s = "local"    -> <<"l", "o", "c", "a", "l">>
    [] s = "serial"   -> <<"s", "e", "r", "i", "a", "l">>
    [] s = "Serial"   -> <<"S", "e", "r", "i", "a", "l">>
    [] s = "mixed"    -> <<"m", "i", "x", "e", "d">>
    [] s = "parallel" -> <<"p", "a", "r", "a", "l", "l", "e", "l">>
    [] s = "bogus"    -> <<"b", "o", "g", "u", "s">>
    [] s = "18446744073710" -> <<"1", "8", "4", "4", "6", "7", "4", "4", "0", "7", "3", "7", "1", "0">>
    [] s = "18446744073710ms" -> <<"1", "8", "4", "4", "6", "7", "4", "4", "0", "7", "3", "7", "1", "0", "m", "s">>
    [] s = "9223372036855" -> <<"9", "2", "2", "3", "3", "7", "2", "0", "3", "6", "8", "5", "5">>
    [] s = "9223372036855ms" -> <<"9", "2", "2", "3", "3", "7", "2", "0", "3", "6", "8", "5", "5", "m", "s">>
    [] s = "1" -> <<"1">>
    [] s = "yes" -> <<"y", "e", "s">>
    [] s = "y" -> <<"y">>
    [] s = "true" -> <<"t", "r", "u", "e">>
    [] s = "t" -> <<"t">>
    [] s = "off" -> <<"o", "f", "f">>
    [] s = "no" -> <<"n", "o">>
    [] s = "n" -> <<"n">>
    [] s = "false" -> <<"f", "a", "l", "s", "e">>
    [] s = "f" -> <<"f">>
    [] s = "TRUE" -> <<"T", "R", "U", "E">>
    [] s = "Yes" -> <<"Y", "e", "s">>
    [] s = "T" -> <<"T">>
    [] s = "N" -> <<"N">>
    [] s = "oFf" -> <<"o", "F", "f">>
    [] s = "2" -> <<"2">>
    [] s = "tru" -> <<"t", "r", "u">>
    [] s = "yess" -> <<"y", "e", "s", "s">>
    [] s = "of" -> <<"o", "f">>
    [] s = "01" -> <<"0", "1">>
    [] s = ":8000" -> <<":", "8", "0", "0", "0">>
    [] s = "8000" -> <<"8", "0", "0", "0">>
    [] s = "a:b:c" -> <<"a", ":", "b", ":", "c">>
    [] s = "http://zipkin:9411/api/v2/spans" -> <<"h", "t", "t", "p", ":", "/", "/", "z", "i", "p", "k", "i", "n", ":", "9", "4", "1", "1", "/", "a", "p", "i", "/", "v", "2", "/", "s", "p", "a", "n", "s">>
    [] s = ":9411" -> <<":", "9", "4", "1", "1">>
    [] s = "zipkin" -> <<"z", "i", "p", "k", "i", "n">>
    [] s = "skywalking" -> <<"s", "k", "y", "w", "a", "l", "k", "i", "n", "g">>
    [] s = "jaeger" -> <<"j", "a", "e", "g", "e", "r">>

Names ==
  {"", "0", "50", "100", "101", "-1", "+7", "abc", "60", "60ms", "-5", "-5ms",
   "on", "OFF", "maybe", "A", "B", "C", "stub", "down", "a b", "a?b", "a%b",
   "a", "b", "x", "proxy", "errors", "headers", "latency", "graceful",
   "local", "serial", "Serial", "mixed", "parallel", "bogus",
   "18446744073710", "18446744073710ms", "9223372036855", "9223372036855ms",
   "1", "yes", "y", "true", "t", "off", "no", "n", "false", "f", "TRUE", "Yes",
   "T", "N", "oFf", "2", "tru", "yess", "of", "01", ":8000", "8000", "a:b:c",
   "http://zipkin:9411/api/v2/spans", ":9411", "zipkin", "skywalking", "jaeger"}

\* The name of a sequence of characters.
StrOf(cs) == CHOOSE s \in Names : Chars(s) = cs

UpperCase == <<"A", "B", "C", "D", "E", "F", "G", "H", "I", "J", "K", "L", "M",
               "N", "O", "P", "Q", "R", "S", "T", "U", "V", "W", "X", "Y", "Z">>

LowerCase == <<"a", "b", "c", "d", "e", "f", "g", "h", "i", "j", "k", "l", "m",
               "n", "o", "p", "q", "r", "s", "t", "u", "v", "w", "x", "y", "z">>

\* A ToLower that leaves the case as it is.
KeepCase(c) == c

\* strings.ToLower, on one character of ASCII.
LowerChar(c) ==
  IF \E i \in 1..Len(UpperCase) : UpperCase[i] = c
  THEN LowerCase[CHOOSE i \in 1..Len(UpperCase) : UpperCase[i] = c]
  ELSE c

ToLower(cs) == [i \in 1..Len(cs) |-> LowerChar(cs[i])]

(***************************************************************************)
(* The error codes of the response envelope.                               *)
(***************************************************************************)
errProxyService   == "invalid or no proxy service set"
errPercentage     == "expected percentage value between 0 and 100"
errDuration       == "expected a zero or positive duration"
errConcurrency    == "invalid or no concurrency type set"
errInternal       == "internal service failure occurred"
errHandleFailures == "expected boolean value for handling failures"

StatusOK                  == 200
StatusBadRequest          == 400
StatusInternalServerError == 500
StatusBadGateway          == 502

(***************************************************************************)
(* The response envelope and the response writer.                          *)
(***************************************************************************)
NoMessage == [text |-> "", val |-> <<>>]

\* type response struct{Service, Code, TraceID, Message, Error, Headers}
response(code, message, error, headers) ==
  [service |-> "", code |-> code, message |-> message, error |-> error,
   headers |-> headers]

\* A fresh http.ResponseWriter: header map (the Content-Type values), what
\* WriteHeader sent, the body chunks written.
NewWriter ==
  [wrote |-> FALSE, status |-> 0, ctype |-> <<>>, sent |-> <<>>,
   nWriteHeader |-> 0, body |-> <<>>]

\* w.Header().Add("Content-Type", v)
AddContentType(w, v) == [w EXCEPT !.ctype = Append(@, v)]

\* A WriteHeader whose later calls replace the status sent.
WriteHeaderOverwrites(w, code) ==
  [w EXCEPT !.wrote = TRUE, !.status = code, !.sent = w.ctype,
            !.nWriteHeader = @ + 1]

\* w.WriteHeader(code): the first call sends the status and the header map
\* as it stands; a later call is superfluous and changes nothing sent.
WriteHeader(w, code) ==
  IF w.wrote THEN [w EXCEPT !.nWriteHeader = @ + 1]
  ELSE [w EXCEPT !.wrote = TRUE, !.status = code, !.sent = w.ctype,
                 !.nWriteHeader = @ + 1]

\* w.Write(b): sends the default status first when none was sent.
Write(w, b) ==
  LET w1 == IF w.wrote THEN w
            ELSE [w EXCEPT !.wrote = TRUE, !.status = StatusOK, !.sent = w.ctype]
  IN  [w1 EXCEPT !.body = Append(@, b)]

\* A writeResponse that keeps the service of the struct it is given.
writeResponseAsGiven(ServiceName, w, res) ==
  LET w1 == AddContentType(w, "application/json")
      w2 == IF res.code > 0 THEN WriteHeader(w1, res.code) ELSE w1
  IN  Write(w2, res)

\* Endpoints.writeResponse
writeResponse(ServiceName, w, res) ==
  LET res1 == [res EXCEPT !.service = ServiceName]
      w1   == AddContentType(w, "application/json")
      w2   == IF res1.code > 0 THEN WriteHeader(w1, res1.code) ELSE w1
  IN  Write(w2, res1)

(***************************************************************************)
(* The behaviour store of one instance: the fields of Endpoints that mtx   *)
(* protects.  errors and headers are int32 (small here), duration is the   *)
(* 64-bit time.Duration.                                                   *)
(***************************************************************************)
Endpoints(e, h, d, hf) ==
  [errors |-> e, headers |-> h, duration |-> d, handleFailures |-> hf]

\* A Validate that returns at the first value out of range.
ValidateFirstError(ep) ==
  IF ep.errors < 0 \/ ep.errors > 100 THEN {"ep-errors"}
  ELSE IF ep.headers < 0 \/ ep.headers > 100 THEN {"ep-headers"}
  ELSE IF I64IsNeg(ep.duration) THEN {"ep-duration"}
  ELSE {}

\* Endpoints.Validate: the flags it reports.
Validate(ep) ==
  (IF ep.errors < 0 \/ ep.errors > 100 THEN {"ep-errors"} ELSE {})
    \cup (IF ep.headers < 0 \/ ep.headers > 100 THEN {"ep-headers"} ELSE {})
    \cup (IF I64IsNeg(ep.duration) THEN {"ep-duration"} ELSE {})

\* The handlers below return [ep, w]: the store and the writer they leave.

\* A setErrors that stores the number before it checks its range.
SetErrorsStoresFirst(ep, ServiceName, w, strErrors) ==
  LET a == Atoi(Chars(strErrors))
  IN  IF ~a.ok
      THEN [ep |-> ep,
            w  |-> writeResponse(ServiceName, w,
                     response(StatusBadRequest, NoMessage, errPercentage, <<>>))]
      ELSE [ep |-> [ep EXCEPT !.errors = I64Small(a.val)],
            w  |-> writeResponse(ServiceName, w,
                     IF I64Lt(a.val, 0) \/ I64Gt(a.val, 100)
                     THEN response(StatusBadRequest, NoMessage, errPercentage, <<>>)
                     ELSE response(StatusOK,
                            [text |-> "errors percentage set to", val |-> a.val],
                            "", <<>>))]

\* Endpoints.setErrors
SetErrorsResult(ep, ServiceName, w, strErrors) ==
  LET a   == Atoi(Chars(strErrors))
      bad == [ep |-> ep,
              w  |-> writeResponse(ServiceName, w,
                       response(StatusBadRequest, NoMessage, errPercentage, <<>>))]
  IN  IF ~a.ok THEN bad
      ELSE IF I64Lt(a.val, 0) \/ I64Gt(a.val, 100) THEN bad
      ELSE [ep |-> [ep EXCEPT !.errors = I64Small(a.val)],
            w  |-> writeResponse(ServiceName, w,
                     response(StatusOK,
                       [text |-> "errors percentage set to", val |-> a.val],
                       "", <<>>))]

\* A setDoubleHeaders that stores into the errors field, as setErrors does.
SetDoubleHeadersIntoErrors(ep, ServiceName, w, strErrors) ==
  LET a   == Atoi(Chars(strErrors))
      bad == [ep |-> ep,
              w  |-> writeResponse(ServiceName, w,
                       response(StatusBadRequest, NoMessage, errPercentage, <<>>))]
  IN  IF ~a.ok THEN bad
      ELSE IF I64Lt(a.val, 0) \/ I64Gt(a.val, 100) THEN bad
      ELSE [ep |-> [ep EXCEPT !.errors = I64Small(a.val)],
            w  |-> writeResponse(ServiceName, w,
                     response(StatusOK,
                       [text |-> "double headers percentage set to", val |-> a.val],
                       "", <<>>))]

\* Endpoints.setDoubleHeaders
SetDoubleHeadersResult(ep, ServiceName, w, strErrors) ==
  LET a   == Atoi(Chars(strErrors))
      bad == [ep |-> ep,
              w  |-> writeResponse(ServiceName, w,
                       response(StatusBadRequest, NoMessage, errPercentage, <<>>))]
  IN  IF ~a.ok THEN bad
      ELSE IF I64Lt(a.val, 0) \/ I64Gt(a.val, 100) THEN bad
      ELSE [ep |-> [ep EXCEPT !.headers = I64Small(a.val)],
            w  |-> writeResponse(ServiceName, w,
                     response(StatusOK,
                       [text |-> "double headers percentage set to", val |-> a.val],
                       "", <<>>))]

\* A setLatency without the check d < 0.
SetLatencyKeepsNegative(ep, ServiceName, w, strErrors) ==
  LET pd == ParseDuration(Chars(strErrors))
      a  == Atoi(Chars(strErrors))
      d  == IF pd.ok THEN pd.val ELSE MilliOf(a.val)
  IN  IF ~pd.ok /\ ~a.ok
      THEN [ep |-> ep,
            w  |-> writeResponse(ServiceName, w,
                     response(StatusBadRequest, NoMessage, errDuration, <<>>))]
      ELSE [ep |-> [ep EXCEPT !.duration = d],
            w  |-> writeResponse(ServiceName, w,
                     response(StatusOK,
                       [text |-> "duration set to", val |-> d], "", <<>>))]

\* Endpoints.setLatency
SetLatencyResult(ep, ServiceName, w, strErrors) ==
  LET pd  == ParseDuration(Chars(strErrors))
      a   == Atoi(Chars(strErrors))
      bad == [ep |-> ep,
              w  |-> writeResponse(ServiceName, w,
                       response(StatusBadRequest, NoMessage, errDuration, <<>>))]
      d   == IF pd.ok THEN pd.val ELSE MilliOf(a.val)
  IN  IF ~pd.ok /\ ~a.ok THEN bad
      ELSE IF I64IsNeg(d) THEN bad
      ELSE [ep |-> [ep EXCEPT !.duration = d],
            w  |-> writeResponse(ServiceName, w,
                     response(StatusOK,
                       [text |-> "duration set to", val |-> d], "", <<>>))]

TrueTokens  == {<<"1">>, <<"o", "n">>, <<"y", "e", "s">>, <<"y">>,
                <<"t", "r", "u", "e">>, <<"t">>}
FalseTokens == {<<"0">>, <<"o", "f", "f">>, <<"n", "o">>, <<"n">>,
                <<"f", "a", "l", "s", "e">>, <<"f">>}

\* Endpoints.setHandleFailures
SetHandleFailuresResult(ep, ServiceName, w, handleFailures) ==
  LET t == ToLower(Chars(handleFailures))
  IN  IF t \in TrueTokens \/ t \in FalseTokens
      THEN [ep |-> [ep EXCEPT !.handleFailures = (t \in TrueTokens)],
            w  |-> writeResponse(ServiceName, w,
                     response(StatusOK,
                       [text |-> "handle failures set to",
                        val |-> <<t \in TrueTokens>>], "", <<>>))]
      ELSE [ep |-> ep,
            w  |-> writeResponse(ServiceName, w,
                     response(StatusBadRequest, NoMessage, errHandleFailures, <<>>))]

(***************************************************************************)
(* The router built by Endpoints.PreRun: the first matching route, in      *)
(* registration order.  {name} matches one non-empty segment.              *)
(***************************************************************************)
Route(path) ==
  LET n == Len(path)
      two(lit) == n = 2 /\ path[1] = lit /\ path[2] # ""
  IN  IF two("headers") THEN [handler |-> "setDoubleHeaders", var |-> path[2]]
      ELSE IF two("errors") THEN [handler |-> "setErrors", var |-> path[2]]
      ELSE IF two("graceful") THEN [handler |-> "setHandleFailures", var |-> path[2]]
      ELSE IF two("latency") THEN [handler |-> "setLatency", var |-> path[2]]
      ELSE IF two("crash") THEN [handler |-> "crash", var |-> path[2]]
      ELSE IF n = 4 /\ path[1] = "local" /\ path[2] # ""
                /\ path[3] = "latency" /\ path[4] # ""
        THEN [handler |-> "emulateConcurrency", var |-> path[2]]
      ELSE IF n >= 2 /\ path[1] = "proxy" /\ path[2] # ""
        THEN [handler |-> "proxy", var |-> path[2]]
      ELSE [handler |-> "echoHandler", var |-> ""]

\* The status of the router's answer to a request whose method no route
\* takes.
StatusMethodNotAllowed == 405

\* A router whose routes take every method.
MatchAnyMethod(method, path) == Route(path)

\* Router.Match: every route is registered with Methods("GET"), and the
\* last one matches every path, so a request of another method matches no
\* route and goes to the router's method-not-allowed handler.
Match(method, path) ==
  IF method # "GET" THEN [handler |-> "methodNotAllowed", var |-> ""]
  ELSE Route(path)

\* The methods of the requests sent to the router.
Methods == {"GET", "POST", "PUT"}

\* The paths sent to the router with each method.
RouterPaths ==
  {<<"headers", "100">>, <<"errors", "100">>, <<"graceful", "on">>,
   <<"latency", "60">>, <<"crash", "x">>, <<"proxy", "down", "x">>,
   <<"x">>, <<"">>, <<"proxy">>, <<"proxy", "">>, <<"errors", "50", "x">>,
   <<"errors", "">>, <<"headers", "100", "">>, <<"local", "serial">>,
   <<"crash">>}

(***************************************************************************)
(* net/url.Parse of "http://" + host + path, as far as proxy uses it: the  *)
(* query is cut at the first '?', the authority ends at the first '/', a   *)
(* host may not hold a space, a '%' in the path must start an escape.      *)
(* (The inputs of the model hold no '#' and no well-formed escape.)        *)
(***************************************************************************)
RECURSIVE PathChars(_)
PathChars(path) ==
  IF path = <<>> THEN <<>>
  ELSE <<"/">> \o Chars(path[1]) \o PathChars(Tail(path))

\* The index of the first c in cs, or Len(cs) + 1.
RECURSIVE IndexOf(_, _)
IndexOf(cs, c) ==
  IF cs = <<>> \/ cs[1] = c THEN 1 ELSE 1 + IndexOf(Tail(cs), c)

HexDigits == Digits \cup {"a", "b", "c", "d", "e", "f", "A", "B", "C", "D", "E", "F"}

BadEscape(cs) ==
  \E i \in 1..Len(cs) :
    /\ cs[i] = "%"
    /\ ~(i + 2 <= Len(cs) /\ cs[i + 1] \in HexDigits /\ cs[i + 2] \in HexDigits)

\* The segments of a path string ("" or starting with '/').
RECURSIVE SplitPath(_)
SplitPath(cs) ==
  IF cs = <<>> THEN <<>>
  ELSE LET r == Tail(cs)
           k == IndexOf(r, "/")
       IN  <<StrOf(SubSeq(r, 1, k - 1))>> \o SplitPath(SubSeq(r, k, Len(r)))

\* [ok, host, path, query] of url.Parse("http://" + host + path); the query
\* is kept as its characters.
ParseURL(host, path) ==
  LET raw  == Chars(host) \o PathChars(path)
      q    == IndexOf(raw, "?")
      rest == SubSeq(raw, 1, q - 1)
      qs   == SubSeq(raw, q + 1, Len(raw))
      sl   == IndexOf(rest, "/")
      auth == SubSeq(rest, 1, sl - 1)
      pth  == SubSeq(rest, sl, Len(rest))
  IN  IF (\E i \in 1..Len(auth) : auth[i] \in {" ", "%"}) \/ BadEscape(pth)
      THEN [ok |-> FALSE, host |-> "", path |-> <<>>, query |-> <<>>]
      ELSE [ok |-> TRUE, host |-> StrOf(auth), path |-> SplitPath(pth),
            query |-> qs]

\* strings.TrimPrefix(r.URL.Path, "/proxy/" + host), on a path the proxy
\* route matched (its second segment is host).
TrimProxyPrefix(path) == SubSeq(path, 3, Len(path))

\* The path ReverseProxy's director sends: singleJoiningSlash("", path).
JoinURLPath(path) == IF path = <<>> THEN <<"">> ELSE path

(***************************************************************************)
(* The instances and the hosts a proxy directive can name.                 *)
(***************************************************************************)
Svc == {"A", "B", "C"}

\* The instance the client talks to.
Ingress == "A"

\* Hosts that are no instance of this program: a stub server, which answers
\* with one of StubStatuses, and a host nothing listens on.
StubHost == "stub"
DownHost == "down"
StubStatuses == {200, 503}
StubBody == response(0, [text |-> "stub body", val |-> <<>>], "", <<>>)

(***************************************************************************)
(* Bounds: the requests the client sends.                                  *)
(***************************************************************************)
\* The longest chain of proxy directives through instances in a request.
MaxHops == 2

\* The instances a chain walks through, in order, after the ingress.
HopOrder == <<"B", "C", "A", "B", "C">>

\* The path "/proxy/h1/.../proxy/hk" + tail.
RECURSIVE Via(_, _)
Via(hops, tail) ==
  IF hops = <<>> THEN tail ELSE <<"proxy", hops[1]>> \o Via(Tail(hops), tail)

\* The setter requests the client sends to the ingress.
SetterPaths ==
  {<<"errors", v>>   : v \in {"0", "50", "100", "101", "-1", "abc"}}
    \cup {<<"headers", v>>  : v \in {"0", "100", "101", "abc"}}
    \cup {<<"latency", v>>  : v \in {"0", "60", "60ms", "-5", "-5ms", "abc"}}
    \cup {<<"graceful", v>> : v \in {"on", "OFF", "maybe"}}

\* Requests that end at the ingress or at a host that is no instance.
DirectPaths ==
  {<<"x">>, <<"proxy">>, <<"proxy", "">>, <<"errors", "50", "x">>,
   <<"proxy", StubHost, "x">>, <<"proxy", DownHost, "x">>,
   <<"proxy", "a b", "x">>}

\* What is asked of the last instance of a chain of k hops.
ChainTails(k) ==
  IF k = 1
  THEN {<<"x">>, <<>>, <<"a?b">>, <<"a%b">>, <<"errors", "100">>,
        <<"errors", "0">>, <<"errors", "abc">>, <<"graceful", "on">>,
        <<"graceful", "OFF">>, <<"proxy", StubHost, "x">>}
  ELSE {<<"x">>, <<"errors", "abc">>}

ChainPaths ==
  UNION {{Via(SubSeq(HopOrder, 1, k), t) : t \in ChainTails(k)} : k \in 1..MaxHops}

\* The requests of the client: a path and the Proxied-By values the request
\* already carries.
ClientRequests ==
  {[path |-> p, hdr |-> <<>>] : p \in SetterPaths \cup DirectPaths \cup ChainPaths}
    \cup {[path |-> Via(SubSeq(HopOrder, 1, k), <<"x">>), hdr |-> <<"ext">>] :
            k \in 0..MaxHops}

\* Setter requests other clients send while the observed one is in flight,
\* and the instance they send them to.
ConcurrentPaths ==
  {<<"errors", "0">>, <<"errors", "100">>, <<"graceful", "on">>,
   <<"graceful", "OFF">>}

ConcurrentTargets == {"B"}

\* The validated boot-time configurations (the flags of Endpoints.FlagSet).
FlagConfigs ==
  {Endpoints(0, 0, I64Zero, FALSE),
   Endpoints(100, 0, I64Zero, FALSE),
   Endpoints(101, 0, I64Zero, FALSE),
   Endpoints(0, -1, I64Zero, TRUE),
   Endpoints(0, 0, I64Neg(I64(5000000)), FALSE)}

(***************************************************************************)
(* The concurrency emulator: its methods, their spans, its requests.       *)
(***************************************************************************)
\* The number of local methods: wg.Add(8) and the end of the three loops.
NumProcs == 8

Procs == 0..(NumProcs - 1)

\* A span of the tracer: its name, its tags in the order set, the number of
\* times it was finished.  NoSpan stands for a span not started.
NoSpan == [name |-> <<>>, tags |-> <<>>, finished |-> 0]

\* tracer.StartSpanFromContext(ctx, name)
StartSpanFromContext(name) == [name |-> name, tags |-> <<>>, finished |-> 0]

\* span.Tag(key, value)
Tag(sp, key, value) == [sp EXCEPT !.tags = Append(@, <<key, value, sp.finished>>)]

\* A Finish that counts as two.
FinishTwice(sp) == [sp EXCEPT !.finished = @ + 2]

\* span.Finish()
Finish(sp) == [sp EXCEPT !.finished = @ + 1]

\* The deferred calls of a proc that defers wg.Done() last.
procDefersDoneFirst == <<"wg.Done", "span.Finish">>

\* The deferred calls of proc in the order they run when its body returns:
\* last deferred, first run.
procDefers == <<"span.Finish", "wg.Done">>

\* The modes of a switch without its default case: any other mode runs as
\* the last case does.
ModesAndOthers == {"serial", "mixed", "parallel", "bogus"}

\* The cases of the switch on strings.ToLower(c).
Modes == {"serial", "mixed", "parallel"}

\* A mixed case that starts the odd methods with a go statement.
IsGoOddInMixed(c, i) == c = "parallel" \/ (c = "mixed" /\ i % 2 = 1)

\* A switch whose serial case starts proc(i) with a go statement too.
IsGoInSerialToo(c, i) == c \in {"serial", "parallel"} \/ (c = "mixed" /\ i % 2 = 0)

\* Whether the switch on strings.ToLower(c) starts proc(i) with a go
\* statement; otherwise it calls it.
IsGo(c, i) == c = "parallel" \/ (c = "mixed" /\ i % 2 = 0)

\* The requests sent to the emulator.
EmuRequests ==
  {<<"local", "serial", "latency", "0">>, <<"local", "Serial", "latency", "60">>,
   <<"local", "mixed", "latency", "0">>, <<"local", "parallel", "latency", "0">>,
   <<"local", "bogus", "latency", "0">>, <<"local", "serial", "latency", "abc">>,
   <<"local", "bogus", "latency", "-5">>, <<"local", "bogus", "latency", "abc">>}

(***************************************************************************)
(* The handlers that run at once on the ingress, and its mutex.            *)
(***************************************************************************)
\* The goroutines net/http runs handlers on: two that serve proxy or echo
\* requests, two that serve setter requests.
Readers == {"r1", "r2"}
Writers == {"w1", "w2"}

\* The fields a handler reads between RLock and RUnlock, in its order.
ReadOrder(handler) ==
  IF handler = "proxy" THEN <<"duration", "errors", "handleFailures">>
  ELSE <<"duration", "headers", "errors">>

\* The accepted setter requests the writers serve.
MtxSetterPaths ==
  {<<"errors", "0">>, <<"errors", "100">>, <<"headers", "100">>,
   <<"latency", "60">>, <<"latency", "0">>, <<"graceful", "on">>,
   <<"graceful", "OFF">>}

\* A Lock that does not wait for the readers.
CanLockBesideReaders(m) == ~m.w

\* mtx.RLock() and mtx.Lock() return: no writer holds the mutex; for Lock,
\* no reader either.  (A waiting Lock also holds back new readers, which
\* only removes interleavings.)
CanRLock(m) == ~m.w

CanLock(m) == ~m.w /\ m.r = 0

\* A goroutine that runs no handler.
NoHandler == [pc |-> "out", handler |-> "", n |-> 0, path |-> <<>>,
              d |-> I64Zero, e |-> 0, h |-> FALSE, hd |-> 0]

(***************************************************************************)
(* Startup: the configuration units of main's run.Group and the tracing    *)
(* services.  A backend service is the record of its fields and of what    *)
(* became of its reporters: Reporter is "nil", "given" (set by the caller) *)
(* or "own" (made in PreRun); closer is "nil", "open" or "closed".         *)
(***************************************************************************)
ZipkinInstrumenter     == "zipkin"
SkywalkingInstrumenter == "skywalking"

supportedInstrumenters == <<ZipkinInstrumenter, SkywalkingInstrumenter>>

\* A validation that looks at the supported names alone.
ObsValidateSupportedOnly(ObservabilityInstrumenter, Instrumenters) ==
  IF \E i \in 1..Len(supportedInstrumenters) :
       supportedInstrumenters[i] = ObservabilityInstrumenter
  THEN {} ELSE {"instrumenter must be one of"}

\* observability.Service.Validate, with the Name() of each of
\* s.Instrumenters: the errors appended.
ObsValidate(ObservabilityInstrumenter, Instrumenters) ==
  (IF \E i \in 1..Len(supportedInstrumenters) :
        supportedInstrumenters[i] = ObservabilityInstrumenter
   THEN {} ELSE {"instrumenter must be one of"})
    \cup
  (IF \E i \in 1..Len(Instrumenters) : Instrumenters[i] = ObservabilityInstrumenter
   THEN {} ELSE {"instrumenter not provided"})

\* net.SplitHostPort returns no error, on an address without brackets: it
\* holds one colon.
SplitHostPortOk(cs) == Cardinality({i \in 1..Len(cs) : cs[i] = ":"}) = 1

\* http.Service.Validate
HttpValidate(ListenAddress) ==
  IF ListenAddress # ""
  THEN IF SplitHostPortOk(Chars(ListenAddress)) THEN {} ELSE {"listen-address"}
  ELSE {"listen-address required"}

\* url.Parse returns no error: the string does not start with a colon
\* (missing protocol scheme) and holds no malformed escape.
UrlParseOk(cs) == ~(cs # <<>> /\ cs[1] = ":") /\ ~BadEscape(cs)

\* zipkin.Service and skywalking.Service as main fills them in: the service
\* name is set, the sample rate is 1.0, zipkin's LocalHostport is empty.
BackendService(name, Address, Reporter) ==
  [name |-> name, Address |-> Address, Reporter |-> Reporter,
   ownsReporter |-> FALSE, tracer |-> FALSE, closer |-> "nil",
   serve |-> "off", opened |-> 0, closed |-> 0, givenClosed |-> 0,
   panic |-> FALSE]

\* zipkin.Service.Validate and skywalking.Service.Validate
BackendValidate(s) ==
  IF s.Reporter = "nil" /\ ~UrlParseOk(Chars(s.Address))
  THEN {"reporter-endpoint"} ELSE {}

\* zipkin.Service.PreRun; tracerErr: zipkin.NewTracer returns an error.
zipkinPreRun(s, tracerErr) ==
  LET own == s.Reporter = "nil"
      s1  == IF own THEN [s EXCEPT !.ownsReporter = TRUE, !.opened = @ + 1] ELSE s
  IN  IF tracerErr
      THEN [s   |-> IF s1.ownsReporter THEN [s1 EXCEPT !.closed = @ + 1] ELSE s1,
            err |-> TRUE]
      ELSE [s   |-> [s1 EXCEPT !.Reporter = IF own THEN "own" ELSE "given",
                               !.tracer = TRUE, !.closer = "open"],
            err |-> FALSE]

\* skywalking.Service.PreRun; reporterErr: reporter.NewGRPCReporter returns
\* an error, tracerErr: go2sky.NewTracer does.
skywalkingPreRun(s, reporterErr, tracerErr) ==
  LET own == s.Reporter = "nil"
      s0  == IF own THEN [s EXCEPT !.ownsReporter = TRUE] ELSE s
      s1  == IF own THEN [s0 EXCEPT !.opened = @ + 1] ELSE s0
  IN  IF own /\ reporterErr THEN [s |-> s0, err |-> TRUE]
      ELSE IF tracerErr
      THEN [s   |-> IF s1.ownsReporter THEN [s1 EXCEPT !.closed = @ + 1] ELSE s1,
            err |-> TRUE]
      ELSE [s   |-> [s1 EXCEPT !.Reporter = IF own THEN "own" ELSE "given",
                               !.tracer = TRUE, !.closer = "open"],
            err |-> FALSE]

\* A GracefulStop that closes the reporter whoever made it.
GracefulStopClosesAny(s) ==
  [s EXCEPT !.closer = "closed",
            !.closed = IF s.Reporter = "own" THEN @ + 1 ELSE @,
            !.givenClosed = IF s.Reporter = "given" THEN @ + 1 ELSE @]

\* A Serve that returns at once.
BackendServeReturns(s) == [s EXCEPT !.serve = "nil"]

\* zipkin.Service.Serve and skywalking.Service.Serve: return <-s.closer.
\* The receive blocks on an open channel, and for ever on a nil one (the
\* call is stuck); on a closed channel it gives the nil error.
BackendServe(s) ==
  [s EXCEPT !.serve = CASE s.closer = "closed" -> "nil"
                        [] s.closer = "open" -> "blocked"
                        [] s.closer = "nil" -> "stuck"]

\* zipkin.Service.GracefulStop and skywalking.Service.GracefulStop: closing
\* a nil or closed channel panics, as does Close on a nil Reporter.  The
\* close lets a blocked Serve return the nil error.
BackendGracefulStop(s) ==
  IF s.closer # "open" THEN [s EXCEPT !.panic = TRUE]
  ELSE LET s1 == [s EXCEPT !.closer = "closed",
                           !.serve = IF @ = "blocked" THEN "nil" ELSE @]
       IN  IF ~s.ownsReporter THEN s1
           ELSE IF s.Reporter = "nil" THEN [s1 EXCEPT !.panic = TRUE]
           ELSE IF s.Reporter = "own" THEN [s1 EXCEPT !.closed = @ + 1]
           ELSE [s1 EXCEPT !.givenClosed = @ + 1]

\* observability.Service.PreRun's loop: the index of the first of
\* s.Instrumenters of the configured name, 0 (nil) when there is none.
FindDelegate(ObservabilityInstrumenter, Instrumenters) ==
  IF \E i \in 1..Len(Instrumenters) : Instrumenters[i] = ObservabilityInstrumenter
  THEN CHOOSE i \in 1..Len(Instrumenters) :
         /\ Instrumenters[i] = ObservabilityInstrumenter
         /\ \A j \in 1..(i - 1) : Instrumenters[j] # ObservabilityInstrumenter
  ELSE 0

\* A facade that calls the first of its instrumenters.
ForwardToFirst(delegate, op) == [op |-> op, to |-> 1]

\* observability.Service.Tracer, SpanFromContext, Middleware, Transport,
\* Serve, GracefulStop: the call goes to s.delegate.
Forward(delegate, op) == [op |-> op, to |-> delegate]

\* zipkin.SpanOrNoopFromContext and go2sky.ActiveSpan, on a context with or
\* without an active span.
SpanOrNoopFromContext(active) == IF active THEN "span" ELSE "noop"

ActiveSpan(active) == IF active THEN "span" ELSE "nil"

\* Service.SpanFromContext of the backend name: the spanAdapter.
BackendSpanFromContext(name, active) ==
  [backend  |-> name,
   active   |-> active,
   called   |-> {},
   delegate |-> IF name = ZipkinInstrumenter THEN SpanOrNoopFromContext(active)
                ELSE ActiveSpan(active)]

NoAdapter == [backend |-> "", active |-> FALSE, delegate |-> "", called |-> {}]

\* A method of spanAdapter panics: Tag and Finish call a method of the
\* delegate, which is a nil interface; TraceID of skywalking reads the
\* context alone, that of zipkin the span's context.
AdapterPanics(sp, op) ==
  /\ sp.delegate = "nil"
  /\ \/ op \in {"Tag", "Finish"}
     \/ op = "TraceID" /\ sp.backend = ZipkinInstrumenter

\* The configurations: the instrumenter flag, the instrumenters the caller
\* provides, the listen address, the reporter address of every backend and
\* whether the caller sets a reporter.
BootConfigs ==
  [ObservabilityInstrumenter : {"zipkin", "skywalking", "jaeger"},
   Instrumenters : {<<"zipkin", "skywalking">>, <<"zipkin">>, <<>>},
   ListenAddress : {":8000", "8000", "a:b:c", ""},
   Address : {"http://zipkin:9411/api/v2/spans", ":9411", "a%b"},
   Reporter : {"nil", "given"},
   Instrumenter : {"svcObs"}]

\* main's defaults.
DefaultConfig ==
  [ObservabilityInstrumenter |-> "zipkin",
   Instrumenters |-> <<"zipkin", "skywalking">>,
   ListenAddress |-> ":8000",
   Address |-> "http://zipkin:9411/api/v2/spans",
   Reporter |-> "nil",
   Instrumenter |-> "svcObs"]

\* The group before Run.
\* The http.Service of main before its flags are read: no server, no
\* listener; ret is what its last Serve returned, "blocked" while it serves.
HttpService ==
  [Server |-> "nil", l |-> "nil", ret |-> "none", panic |-> FALSE]

\* http.Service.FlagSet makes the server of a service that has none.
HttpFlagSet(s) == [s EXCEPT !.Server = IF @ = "nil" THEN "new" ELSE @]

\* A Serve that serves whether the listener was made or not.
HttpServeAnyway(s, listenErr) ==
  IF s.Server = "nil" THEN [s EXCEPT !.l = "open", !.panic = TRUE]
  ELSE IF s.Server = "closed"
  THEN [s EXCEPT !.l = "closed", !.ret = "ErrServerClosed"]
  ELSE [s EXCEPT !.Server = "serving", !.l = "open", !.ret = "blocked"]

\* http.Service.Serve: net.Listen gives the listener or an error, which Serve
\* returns; else the server serves on the listener until it is shut down.  A
\* server that was shut down closes the listener and returns at once; there
\* is no server to call in a service whose flags were never read.
HttpServe(s, listenErr) ==
  IF listenErr THEN [s EXCEPT !.l = "nil", !.ret = "listen"]
  ELSE IF s.Server = "nil" THEN [s EXCEPT !.l = "open", !.panic = TRUE]
  ELSE IF s.Server = "closed"
  THEN [s EXCEPT !.l = "closed", !.ret = "ErrServerClosed"]
  ELSE [s EXCEPT !.Server = "serving", !.l = "open", !.ret = "blocked"]

\* A GracefulStop that closes the listener without looking at it.
HttpGracefulStopUnguarded(s) ==
  LET down == IF s.Server = "nil" THEN s
              ELSE [s EXCEPT !.Server = "closed",
                             !.l = IF s.Server = "serving" THEN "closed" ELSE @,
                             !.ret = IF @ = "blocked" THEN "ErrServerClosed"
                                     ELSE @]
  IN  IF down.l = "nil" THEN [down EXCEPT !.panic = TRUE]
      ELSE [down EXCEPT !.l = "closed"]

\* http.Service.GracefulStop: Shutdown of the server if there is one, which
\* closes the listener it serves on and makes Serve return; then Close of the
\* listener if there is one, whose error is dropped.
HttpGracefulStop(s) ==
  LET down == IF s.Server = "nil" THEN s
              ELSE [s EXCEPT !.Server = "closed",
                             !.l = IF s.Server = "serving" THEN "closed" ELSE @,
                             !.ret = IF @ = "blocked" THEN "ErrServerClosed"
                                     ELSE @]
  IN  IF down.l = "nil" THEN down ELSE [down EXCEPT !.l = "closed"]

NewGroup(cfg) ==
  [cfg      |-> cfg,
   pc       |-> "validate",
   step     |-> 1,
   errs     |-> {},
   delegate |-> 0,
   svc      |-> [i \in 1..Len(cfg.Instrumenters) |->
                   BackendService(cfg.Instrumenters[i], cfg.Address, cfg.Reporter)],
   http     |-> "off",
   obs      |-> "off",
   last     |-> [op |-> "", to |-> 0],
   sp       |-> NoAdapter,
   handler  |-> "nil",
   Handler  |-> "nil",
   srv      |-> HttpFlagSet(HttpService),
   panic    |-> FALSE]

\* An Endpoints.PreRun that hands out its router as it is.
EpPreRunBareRouter(b) ==
  IF b.cfg.Instrumenter = "nil" THEN [b |-> b, err |-> TRUE]
  ELSE [b   |-> [b EXCEPT !.handler = "router",
                          !.last = Forward(b.delegate, "Tracer")],
        err |-> FALSE]

\* Endpoints.PreRun on the group b: without an instrumenter (or a tracer of
\* it) it returns an error; else ep.handler is the router inside the
\* middleware of the instrumenter.  [b, err]
EpPreRun(b) ==
  IF b.cfg.Instrumenter = "nil" THEN [b |-> b, err |-> TRUE]
  ELSE [b   |-> [b EXCEPT !.handler = "Middleware(router)",
                          !.last = Forward(b.delegate, "Middleware")],
        err |-> FALSE]

\* A facade PreRun that returns an error when it finds no delegate.
ObsPreRunReturnsError(b, reporterErr, tracerErr) ==
  LET d == FindDelegate(b.cfg.ObservabilityInstrumenter, b.cfg.Instrumenters)
  IN  IF d = 0 THEN [b |-> b, err |-> TRUE]
      ELSE LET s == b.svc[d]
               r == IF s.name = ZipkinInstrumenter
                    THEN zipkinPreRun(s, tracerErr)
                    ELSE skywalkingPreRun(s, reporterErr, tracerErr)
           IN  [b |-> [b EXCEPT !.delegate = d, !.svc[d] = r.s], err |-> r.err]

\* observability.Service.PreRun on the group b: the delegate is set and its
\* PreRun called, whose error is returned; s.delegate.PreRun() on a nil
\* delegate panics.  [b, err]
ObsPreRun(b, reporterErr, tracerErr) ==
  LET d == FindDelegate(b.cfg.ObservabilityInstrumenter, b.cfg.Instrumenters)
  IN  IF d = 0 THEN [b |-> [b EXCEPT !.panic = TRUE], err |-> FALSE]
      ELSE LET s == b.svc[d]
               r == IF s.name = ZipkinInstrumenter
                    THEN zipkinPreRun(s, tracerErr)
                    ELSE skywalkingPreRun(s, reporterErr, tracerErr)
           IN  [b |-> [b EXCEPT !.delegate = d, !.svc[d] = r.s], err |-> r.err]

\* observability.Service.Serve and GracefulStop on the group b: the call
\* goes to the delegate, and panics on a nil one.
ObsServe(b) ==
  IF b.delegate = 0 THEN [b EXCEPT !.panic = TRUE]
  ELSE [b EXCEPT !.svc[b.delegate] = BackendServe(@),
                 !.last = Forward(b.delegate, "Serve")]

ObsGracefulStop(b) ==
  IF b.delegate = 0 THEN [b EXCEPT !.panic = TRUE]
  ELSE [b EXCEPT !.svc[b.delegate] = BackendGracefulStop(@),
                 !.last = Forward(b.delegate, "GracefulStop")]

(***************************************************************************)
(* pkg.HasError and the errors of its test.  An error is named by its      *)
(* identity; "nil" is the nil error.                                       *)
(***************************************************************************)
\* The errors TestHasError builds: what kind of error each is, its message,
\* and the errors it wraps or holds.
TestErrors ==
  [nil          |-> [kind |-> "nil", msg |-> "", wraps |-> {}],
   errSimple    |-> [kind |-> "errors.New", msg |-> "simple", wraps |-> {}],
   errWrapped   |-> [kind |-> "%w", msg |-> "wrapped error: simple",
                     wraps |-> {"errSimple"}],
   errOldWrap   |-> [kind |-> "ghe.Wrap",
                     msg |-> "github.com/pkg/errors wrapped: wrapped error: simple",
                     wraps |-> {"errWrapped"}],
   other        |-> [kind |-> "errors.New", msg |-> "other", wraps |-> {}],
   multi        |-> [kind |-> "multierror", msg |-> "2 errors occurred",
                     wraps |-> {"other", "errOldWrap"}],
   otherHME     |-> [kind |-> "errors.New", msg |-> "other", wraps |-> {}],
   errMultiHME  |-> [kind |-> "hme", msg |-> "2 errors occurred",
                     wraps |-> {"otherHME", "errOldWrap"}],
   level2       |-> [kind |-> "%w", msg |-> "level 2 2 errors occurred",
                     wraps |-> {"multi"}],
   errWrapMulti |-> [kind |-> "%w", msg |-> "level 1 level 2 2 errors occurred",
                     wraps |-> {"level2"}],
   newSimple    |-> [kind |-> "errors.New", msg |-> "simple", wraps |-> {}]]

\* The cases of TestHasError: in, target, expected.
TestCases ==
  {<<"nil", "errSimple", FALSE>>,
   <<"nil", "nil", TRUE>>,
   <<"errSimple", "nil", FALSE>>,
   <<"errSimple", "errSimple", TRUE>>,
   <<"errWrapped", "errSimple", TRUE>>,
   <<"errOldWrap", "errSimple", TRUE>>,
   <<"errOldWrap", "errWrapped", TRUE>>,
   <<"multi", "errSimple", TRUE>>,
   <<"errMultiHME", "errSimple", TRUE>>,
   <<"errWrapMulti", "errSimple", TRUE>>,
   <<"errWrapped", "errOldWrap", FALSE>>,
   <<"errSimple", "newSimple", FALSE>>}

\* Two errors compared by their messages.
SameMessage(err, target) == TestErrors[err].msg = TestErrors[target].msg

\* err == target: the same error value.
SameError(err, target) == err = target

\* pkg.HasError(err, target): err is target, or neither is nil and an error
\* that err wraps (with %w or pkg/errors) or holds (a multi-error) has it.
RECURSIVE HasError(_, _)
HasError(err, target) ==
  IF SameError(err, target) THEN TRUE
  ELSE IF err = "nil" \/ target = "nil" THEN FALSE
  ELSE \E e \in TestErrors[err].wraps : HasError(e, target)

NoProbe == [in |-> <<>>, out |-> <<>>]

(***************************************************************************)
(* State.                                                                  *)
(***************************************************************************)
VARIABLES
  store,   \* instance -> its behaviour store
  stack,   \* the request in flight: one frame per hop, the client's first
  resp,    \* what the client received for its last request
  recv,    \* the requests received by the hops of the request in flight
  sent,    \* the outbound calls made for the request in flight
  epc,     \* the emulator handler's position
  mode,    \* strings.ToLower(c) of the emulator request
  ed,      \* d of the emulator request
  ei,      \* i of the loop of the emulator request
  wg,      \* the counter of the emulator's sync.WaitGroup
  unit,    \* i -> the position of proc(i)
  span,    \* i -> the span of proc(i)
  ew,      \* the emulator handler's response writer
  mtx,     \* the ingress's sync.RWMutex: its writer and its readers
  gor,     \* goroutine -> the handler it runs on the ingress and where it is
  alive,   \* the ingress's process runs
  timers,  \* the goroutines started by crash that still sleep
  boot,    \* the run.Group of main: configuration, phase, tracing services
  probe    \* the arguments and the result of a function under test

srvVars == <<store, stack, resp, recv, sent>>

emuVars == <<epc, mode, ed, ei, wg, unit, span, ew>>

mtxVars == <<mtx, gor>>

crashVars == <<alive, timers>>

bootVars == <<boot, probe>>

vars == <<store, stack, resp, recv, sent, epc, mode, ed, ei, wg, unit, span, ew,
          mtx, gor, alive, timers, boot, probe>>

NoResp   == [kind |-> "none", status |-> 0, ctype |-> <<>>, body |-> <<>>]
Aborted  == [kind |-> "abort", status |-> 0, ctype |-> <<>>, body |-> <<>>]

\* What the peer reads from a writer when the handler has returned.
ResultOf(w) ==
  [kind |-> "http", status |-> IF w.wrote THEN w.status ELSE StatusOK,
   ctype |-> w.sent, body |-> w.body]

\* The frame of a request just received by instance s.
NewFrame(s, path, query, hdr) ==
  [svc |-> s, path |-> path, query |-> query, hdr |-> hdr, pc |-> "recv",
   handler |-> "", host |-> "", d |-> I64Zero, e |-> 0, h |-> FALSE, hd |-> 0,
   w |-> NewWriter, panic |-> FALSE]

Top == stack[Len(stack)]

SetTop(f) == [stack EXCEPT ![Len(stack)] = f]

\* The instance serves: the behaviour store is that of its flags, no request
\* is in flight.
\* No request is in flight and nothing runs.
Quiet ==
  /\ stack = <<>>
  /\ resp = NoResp
  /\ recv = <<>>
  /\ sent = <<>>
  /\ epc = "idle"
  /\ mode = ""
  /\ ed = I64Zero
  /\ ei = 0
  /\ wg = 0
  /\ unit = [i \in Procs |-> "idle"]
  /\ span = [i \in Procs |-> NoSpan]
  /\ ew = NewWriter
  /\ mtx = [w |-> FALSE, r |-> 0]
  /\ gor = [g \in Readers \cup Writers |-> NoHandler]
  /\ alive = TRUE
  /\ timers = 0

\* The state of an instance whose flags passed Validate.
Serving ==
  /\ \E c \in {f \in FlagConfigs : Validate(f) = {}} : store = [s \in Svc |-> c]
  /\ Quiet

Init ==
  /\ Serving
  /\ boot = NewGroup(DefaultConfig)
  /\ probe = NoProbe

\* The client sends GET path to the ingress.
Send(path, hdr) ==
  /\ stack = <<>>
  /\ stack' = <<NewFrame(Ingress, path, <<>>, hdr)>>
  /\ resp' = NoResp
  /\ recv' = <<>>
  /\ sent' = <<>>
  /\ UNCHANGED store
  /\ UNCHANGED <<emuVars, mtxVars, crashVars, bootVars>>

\* The top frame is a request the router hands to handler name.
Routed(name) ==
  /\ stack # <<>>
  /\ Top.pc = "recv"
  /\ Route(Top.path).handler = name

Received == Append(recv, [svc |-> Top.svc, path |-> Top.path,
                          query |-> Top.query, hdr |-> Top.hdr])

\* A setter handler runs to completion on the top frame.
RunSetter(name, out) ==
  /\ Routed(name)
  /\ store' = [store EXCEPT ![Top.svc] = out.ep]
  /\ stack' = SetTop([Top EXCEPT !.pc = "done", !.handler = name, !.w = out.w])
  /\ recv' = Received
  /\ UNCHANGED <<resp, sent>>
  /\ UNCHANGED <<emuVars, mtxVars, crashVars, bootVars>>

setErrors ==
  RunSetter("setErrors",
    SetErrorsResult(store[Top.svc], Top.svc, Top.w, Route(Top.path).var))

setDoubleHeaders ==
  RunSetter("setDoubleHeaders",
    SetDoubleHeadersResult(store[Top.svc], Top.svc, Top.w, Route(Top.path).var))

setLatency ==
  RunSetter("setLatency",
    SetLatencyResult(store[Top.svc], Top.svc, Top.w, Route(Top.path).var))

setHandleFailures ==
  RunSetter("setHandleFailures",
    SetHandleFailuresResult(store[Top.svc], Top.svc, Top.w, Route(Top.path).var))

\* rand.Int31n(n): any integer of [0, n).
Int31n(n) == 0..(n - 1)

\* An error percentage looked up in the store when the draw is made.
ErrorsStored(f) == store[f.svc].errors

\* The error percentage a handler compares its draw with: its local
\* variable errors, set from ep.errors under the read lock.
ErrorsRead(f) == f.e

\* A comparison that also fails the draw n = e.
IsFailureInclusive(n, e) == n <= e

\* The draw n is a failure at percentage e: rand.Int31n(100) < e.
IsFailure(n, e) == n < e

\* The draws explored: both ends of the range and both sides of every
\* percentage a store of the model holds (0, 50, 100).
Draws == {n \in Int31n(100) : n \in {0, 49, 50, 99}}

(***************************************************************************)
(* Endpoints.proxy                                                         *)
(***************************************************************************)
\* The handler starts: it reads duration, errors and handleFailures under
\* one read lock, then sleeps.
proxy ==
  /\ Routed("proxy")
  /\ stack' = SetTop([Top EXCEPT !.pc = "sleep", !.handler = "proxy",
                                 !.host = Route(Top.path).var,
                                 !.d = store[Top.svc].duration,
                                 !.e = store[Top.svc].errors,
                                 !.h = store[Top.svc].handleFailures])
  /\ recv' = Received
  /\ UNCHANGED <<store, resp, sent>>
  /\ UNCHANGED <<emuVars, mtxVars, crashVars, bootVars>>

\* A header whose Proxied-By is set, not added to.
SetProxiedBy(hdr, ServiceName) == <<ServiceName>>

\* r.Header.Add("Proxied-By", ep.ServiceName) on a clone of the header.
AddProxiedBy(hdr, ServiceName) == Append(hdr, ServiceName)

\* The request the proxy forwards: [ok, host, path, query, hdr].  ok is
\* FALSE when url.Parse fails on the target or on target + path: the nil
\* URL is dereferenced and the handler panics.
Outbound(f) ==
  LET u == ParseURL(f.host, <<>>)
      r == ParseURL(f.host, TrimProxyPrefix(f.path))
  IN  [ok    |-> u.ok /\ r.ok,
       host  |-> u.host,
       path  |-> JoinURLPath(r.path),
       query |-> r.query,
       hdr   |-> AddProxiedBy(f.hdr, f.svc)]

\* After the sleep, with n the value rand.Int31n(100) returns: when n is
\* below the errors read, the handler answers itself, otherwise it calls the
\* next hop.
proxyRoll(n) ==
  /\ stack # <<>>
  /\ Top.pc = "sleep"
  /\ Top.handler = "proxy"
  /\ IF IsFailure(n, ErrorsRead(Top))
     THEN /\ stack' = SetTop([Top EXCEPT !.pc = "done",
                 !.w = writeResponse(Top.svc, Top.w,
                         response(StatusInternalServerError, NoMessage,
                                  errInternal, <<>>))])
          /\ sent' = sent
     ELSE LET out == Outbound(Top)
              me  == Top
          IN  IF ~out.ok
              THEN /\ stack' = SetTop([me EXCEPT !.pc = "done", !.panic = TRUE])
                   /\ sent' = sent
              ELSE /\ sent' = Append(sent, [from |-> Top.svc, host |-> out.host,
                                            path |-> out.path, query |-> out.query,
                                            hdr |-> out.hdr])
                   /\ stack' =
                        IF out.host \in Svc
                        THEN Append(SetTop([me EXCEPT !.pc = "await"]),
                                    NewFrame(out.host, out.path, out.query, out.hdr))
                        ELSE SetTop([me EXCEPT !.pc = "await"])
  /\ UNCHANGED <<store, resp, recv>>
  /\ UNCHANGED <<emuVars, mtxVars, crashVars, bootVars>>

\* A copy that leaves the status to the first Write.
CopyResponseNoStatus(w, r) ==
  [w EXCEPT !.wrote = TRUE, !.status = StatusOK, !.ctype = r.ctype,
            !.sent = r.ctype, !.body = r.body]

\* ReverseProxy copies the response to the writer: headers, status, body.
CopyResponse(w, r) ==
  [w EXCEPT !.wrote = TRUE, !.status = r.status, !.ctype = r.ctype,
            !.sent = r.ctype, !.nWriteHeader = @ + 1, !.body = r.body]

\* A reverse proxy that runs the ModifyResponse hook on a round trip that
\* gave no response too.
ProxyResponseHookAlways(f, r) ==
  IF f.h /\ (r.kind # "http" \/ r.status # StatusOK)
  THEN WriteHeader(
         writeResponse(f.svc, f.w,
           response(StatusOK,
             [text |-> "called and got error return",
              val |-> [ServiceName |-> f.svc, svc |-> f.host,
                       path |-> TrimProxyPrefix(f.path), raw |-> r.body]],
             "", <<>>)),
         StatusBadGateway)
  ELSE IF r.kind # "http" THEN WriteHeader(f.w, StatusBadGateway)
  ELSE CopyResponse(f.w, r)

\* httputil.ReverseProxy.ServeHTTP once the round trip is over, with the
\* ModifyResponse hook proxy installs when handleFailures was read true.
\* r is the next hop's response, or no response (a transport error).
ProxyResponse(f, r) ==
  IF r.kind # "http"
  THEN \* the default ErrorHandler
       WriteHeader(f.w, StatusBadGateway)
  ELSE IF f.h /\ r.status # StatusOK
  THEN \* ModifyResponse answers itself and returns the "bail" error, which
       \* the default ErrorHandler then reports
       WriteHeader(
         writeResponse(f.svc, f.w,
           response(StatusOK,
             [text |-> "called and got error return",
              val |-> [ServiceName |-> f.svc, svc |-> f.host,
                       path |-> TrimProxyPrefix(f.path), raw |-> r.body]],
             "", <<>>)),
         StatusBadGateway)
  ELSE CopyResponse(f.w, r)

\* What the caller of the top frame reads when its handler has returned: a
\* panicking handler is recovered by the server, which drops the connection.
TopResult == IF Top.panic THEN Aborted ELSE ResultOf(Top.w)

\* The top frame's handler has returned and its caller is a proxying hop.
Return ==
  /\ Len(stack) > 1
  /\ Top.pc = "done"
  /\ LET caller == stack[Len(stack) - 1]
     IN  stack' = SubSeq(stack, 1, Len(stack) - 2) \o
                    <<[caller EXCEPT !.pc = "done",
                                     !.w = ProxyResponse(caller, TopResult)]>>
  /\ UNCHANGED <<store, resp, recv, sent>>
  /\ UNCHANGED <<emuVars, mtxVars, crashVars, bootVars>>

\* The stub server's response with a status.
StubResponse(status) ==
  [kind |-> "http", status |-> status, ctype |-> <<"text/plain">>,
   body |-> <<StubBody>>]

\* The stub server answers the top frame's outbound call.
StubReply(status) ==
  /\ stack # <<>>
  /\ Top.pc = "await"
  /\ Top.host = StubHost
  /\ stack' = SetTop([Top EXCEPT !.pc = "done",
        !.w = ProxyResponse(Top, StubResponse(status))])
  /\ UNCHANGED <<store, resp, recv, sent>>
  /\ UNCHANGED <<emuVars, mtxVars, crashVars, bootVars>>

\* The top frame's outbound call fails: nothing answers at the host.
TransportError ==
  /\ stack # <<>>
  /\ Top.pc = "await"
  /\ Top.host \notin Svc \cup {StubHost}
  /\ stack' = SetTop([Top EXCEPT !.pc = "done", !.w = ProxyResponse(Top, NoResp)])
  /\ UNCHANGED <<store, resp, recv, sent>>
  /\ UNCHANGED <<emuVars, mtxVars, crashVars, bootVars>>

\* The ingress handler has returned: the client has its response.
Deliver ==
  /\ Len(stack) = 1
  /\ Top.pc = "done"
  /\ resp' = TopResult
  /\ stack' = <<>>
  /\ UNCHANGED <<store, recv, sent>>
  /\ UNCHANGED <<emuVars, mtxVars, crashVars, bootVars>>

(***************************************************************************)
(* Endpoints.echoHandler                                                   *)
(***************************************************************************)
\* An echo that sends no headers back.
HeaderLeftOut(r) == <<>>

\* r.Header of the request r of a frame.
Header(r) == r.hdr

echoHandler ==
  /\ Routed("echoHandler")
  /\ stack' = SetTop([Top EXCEPT !.pc = "sleep", !.handler = "echoHandler",
                                 !.d = store[Top.svc].duration,
                                 !.hd = store[Top.svc].headers,
                                 !.e = store[Top.svc].errors])
  /\ recv' = Received
  /\ UNCHANGED <<store, resp, sent>>
  /\ UNCHANGED <<emuVars, mtxVars, crashVars, bootVars>>

\* After the sleep, with n the value rand.Int31n(100) returns.
echoRoll(n) ==
  /\ stack # <<>>
  /\ Top.pc = "sleep"
  /\ Top.handler = "echoHandler"
  /\ stack' = SetTop(
       IF IsFailure(n, ErrorsRead(Top))
       THEN [Top EXCEPT !.pc = "done",
               !.w = writeResponse(Top.svc, Top.w,
                       response(StatusInternalServerError, NoMessage,
                                errInternal, <<>>))]
       ELSE [Top EXCEPT !.pc = "headers"])
  /\ UNCHANGED <<store, resp, recv, sent>>
  /\ UNCHANGED <<emuVars, mtxVars, crashVars, bootVars>>

\* The double-header draw, with n the value rand.Int31n(100) returns, and
\* the success envelope.
echoRespond(n) ==
  /\ stack # <<>>
  /\ Top.pc = "headers"
  /\ LET w1 == IF IsFailure(n, Top.hd)
               THEN AddContentType(
                      AddContentType(WriteHeader(Top.w, StatusOK), "text/html"),
                      "application/json")
               ELSE Top.w
     IN  stack' = SetTop([Top EXCEPT !.pc = "done",
               !.w = writeResponse(Top.svc, w1,
                       response(StatusOK, NoMessage, "", Header(Top)))])
  /\ UNCHANGED <<store, resp, recv, sent>>
  /\ UNCHANGED <<emuVars, mtxVars, crashVars, bootVars>>

(***************************************************************************)
(* Setter requests of other clients, sent straight to an instance while    *)
(* the observed request sleeps or waits for its next hop; their responses  *)
(* are not observed.                                                       *)
(***************************************************************************)
SetterResult(ep, s, path) ==
  LET r == Route(path)
  IN  CASE r.handler = "setErrors" -> SetErrorsResult(ep, s, NewWriter, r.var)
        [] r.handler = "setDoubleHeaders" ->
             SetDoubleHeadersResult(ep, s, NewWriter, r.var)
        [] r.handler = "setLatency" -> SetLatencyResult(ep, s, NewWriter, r.var)
        [] r.handler = "setHandleFailures" ->
             SetHandleFailuresResult(ep, s, NewWriter, r.var)

Concurrent(s, path) ==
  /\ stack # <<>>
  /\ Top.pc \in {"sleep", "await"}
  /\ store' = [store EXCEPT ![s] = SetterResult(store[s], s, path).ep]
  /\ UNCHANGED <<stack, resp, recv, sent>>
  /\ UNCHANGED <<emuVars, mtxVars, crashVars, bootVars>>

Next ==
  \/ \E r \in ClientRequests : Send(r.path, r.hdr)
  \/ setErrors
  \/ setDoubleHeaders
  \/ setLatency
  \/ setHandleFailures
  \/ proxy
  \/ \E n \in Draws : proxyRoll(n)
  \/ Return
  \/ \E status \in StubStatuses : StubReply(status)
  \/ TransportError
  \/ Deliver
  \/ echoHandler
  \/ \E n \in Draws : echoRoll(n)
  \/ \E n \in Draws : echoRespond(n)
  \/ \E s \in ConcurrentTargets, path \in ConcurrentPaths : Concurrent(s, path)

Spec == Init /\ [][Next]_vars

(***************************************************************************)
(* Endpoints.emulateConcurrency, on the ingress.                           *)
(***************************************************************************)
\* A handler that looks at the mode before it looks at the duration.
emulateConcurrencyModeFirst(path) ==
  /\ epc \in {"idle", "returned"}
  /\ Route(path).handler = "emulateConcurrency"
  /\ LET strErrors == path[4]
         c   == StrOf(ToLower(Chars(path[2])))
         pd  == ParseDuration(Chars(strErrors))
         a   == Atoi(Chars(strErrors))
         d   == IF pd.ok THEN pd.val ELSE MilliOf(a.val)
         bad(err) == writeResponse(Ingress, NewWriter,
                       response(StatusBadRequest, NoMessage, err, <<>>))
     IN  IF c \notin Modes
         THEN /\ epc' = "returned"
              /\ ew' = bad(errConcurrency)
              /\ mode' = c
              /\ ed' = I64Zero
              /\ wg' = 0
         ELSE IF (~pd.ok /\ ~a.ok) \/ I64IsNeg(d)
         THEN /\ epc' = "returned"
              /\ ew' = bad(errDuration)
              /\ mode' = c
              /\ ed' = I64Zero
              /\ wg' = 0
         ELSE /\ epc' = "loop"
              /\ ew' = NewWriter
              /\ mode' = c
              /\ ed' = d
              /\ wg' = NumProcs
  /\ ei' = 0
  /\ unit' = [i \in Procs |-> "idle"]
  /\ span' = [i \in Procs |-> NoSpan]
  /\ UNCHANGED <<srvVars, mtxVars, crashVars, bootVars>>

\* The handler up to its switch: the duration is parsed, the wait group is
\* set to the number of methods, the mode is looked up.
emulateConcurrency(path) ==
  /\ epc \in {"idle", "returned"}
  /\ Route(path).handler = "emulateConcurrency"
  /\ LET strErrors == path[4]
         c   == StrOf(ToLower(Chars(path[2])))
         pd  == ParseDuration(Chars(strErrors))
         a   == Atoi(Chars(strErrors))
         d   == IF pd.ok THEN pd.val ELSE MilliOf(a.val)
         bad(err) == writeResponse(Ingress, NewWriter,
                       response(StatusBadRequest, NoMessage, err, <<>>))
     IN  IF (~pd.ok /\ ~a.ok) \/ I64IsNeg(d)
         THEN /\ epc' = "returned"
              /\ ew' = bad(errDuration)
              /\ mode' = ""
              /\ ed' = I64Zero
              /\ wg' = 0
         ELSE IF c \notin Modes
         THEN /\ epc' = "returned"
              /\ ew' = bad(errConcurrency)
              /\ mode' = c
              /\ ed' = d
              /\ wg' = NumProcs
         ELSE /\ epc' = "loop"
              /\ ew' = NewWriter
              /\ mode' = c
              /\ ed' = d
              /\ wg' = NumProcs
  /\ ei' = 0
  /\ unit' = [i \in Procs |-> "idle"]
  /\ span' = [i \in Procs |-> NoSpan]
  /\ UNCHANGED <<srvVars, mtxVars, crashVars, bootVars>>

\* The loop goes on to its next iteration, or ends.
LoopOn ==
  /\ ei' = ei + 1
  /\ epc' = IF ei + 1 = NumProcs THEN "wait" ELSE "loop"

\* One iteration of the loop: "go proc(i)" starts the goroutine and goes on,
\* "proc(i)" enters the call.
emuLoop ==
  /\ epc = "loop"
  /\ IF IsGo(mode, ei) THEN LoopOn ELSE epc' = "call" /\ ei' = ei
  /\ UNCHANGED <<mode, ed, wg, unit, span, ew>>
  /\ UNCHANGED <<srvVars, mtxVars, crashVars, bootVars>>

\* The call proc(i) of the handler returns.
emuCallReturn ==
  /\ epc = "call"
  /\ unit[ei] = "done"
  /\ LoopOn
  /\ UNCHANGED <<mode, ed, wg, unit, span, ew>>
  /\ UNCHANGED <<srvVars, mtxVars, crashVars, bootVars>>

\* wg.Wait() returns and the handler answers.
emuWait ==
  /\ epc = "wait"
  /\ wg = 0
  /\ epc' = "returned"
  /\ ew' = writeResponse(Ingress, ew,
             response(StatusOK,
               [text |-> "ran several local spans", val |-> <<>>], "", <<>>))
  /\ UNCHANGED <<mode, ed, ei, wg, unit, span>>
  /\ UNCHANGED <<srvVars, mtxVars, crashVars, bootVars>>

\* proc(i) has been started: by a go statement the loop has passed, or by
\* the call the handler is in.
Started(i) == IF IsGo(mode, i) THEN ei > i ELSE epc = "call" /\ ei = i

\* proc(i) up to its sleep: the span is started and tagged.
procStart(i) ==
  /\ Started(i)
  /\ unit[i] = "idle"
  /\ unit' = [unit EXCEPT ![i] = "sleep"]
  /\ span' = [span EXCEPT ![i] =
                Tag(StartSpanFromContext(<<"proc", i>>), "duration", ed)]
  /\ UNCHANGED <<epc, mode, ed, ei, wg, ew>>
  /\ UNCHANGED <<srvVars, mtxVars, crashVars, bootVars>>

\* The k-th deferred call of proc(i) runs: the first when the sleep is
\* over, the second after the first; then proc(i) has returned.
procDeferred(i, k) ==
  /\ unit[i] = (IF k = 1 THEN "sleep" ELSE "deferred")
  /\ unit' = [unit EXCEPT ![i] = IF k = 1 THEN "deferred" ELSE "done"]
  /\ IF procDefers[k] = "span.Finish"
     THEN span' = [span EXCEPT ![i] = Finish(@)] /\ wg' = wg
     ELSE wg' = wg - 1 /\ span' = span
  /\ UNCHANGED <<epc, mode, ed, ei, ew>>
  /\ UNCHANGED <<srvVars, mtxVars, crashVars, bootVars>>

EmuInit ==
  /\ Init
  /\ store = [s \in Svc |-> Endpoints(0, 0, I64Zero, FALSE)]

EmuNext ==
  \/ \E path \in EmuRequests : emulateConcurrency(path)
  \/ emuLoop
  \/ emuCallReturn
  \/ emuWait
  \/ \E i \in Procs : procStart(i)
  \/ \E i \in Procs, k \in 1..2 : procDeferred(i, k)

\* The scheduler runs every goroutine that can take a step: the handler's
\* and those of the methods.
EmuSpec ==
  /\ EmuInit
  /\ [][EmuNext]_vars
  /\ WF_vars(emuLoop \/ emuCallReturn \/ emuWait)
  /\ \A i \in Procs : WF_vars(procStart(i) \/ \E k \in 1..2 : procDeferred(i, k))

(***************************************************************************)
(* The critical sections of the handlers, on the ingress.                  *)
(***************************************************************************)
\* proxy or echoHandler starts on g: mtx.RLock() returns.
RLock(g, handler) ==
  /\ gor[g].pc = "out"
  /\ CanRLock(mtx)
  /\ mtx' = [mtx EXCEPT !.r = @ + 1]
  /\ gor' = [gor EXCEPT ![g] = [NoHandler EXCEPT !.pc = "read",
                                                 !.handler = handler, !.n = 1]]
  /\ UNCHANGED <<srvVars, emuVars, crashVars, bootVars>>

\* The handler on g copies the next field to its local.
ReadField(g) ==
  /\ gor[g].pc = "read"
  /\ gor[g].n <= 3
  /\ LET f  == ReadOrder(gor[g].handler)[gor[g].n]
         ep == store[Ingress]
         g1 == [gor[g] EXCEPT !.n = @ + 1]
     IN  gor' = [gor EXCEPT ![g] =
           CASE f = "duration"       -> [g1 EXCEPT !.d = ep.duration]
             [] f = "errors"         -> [g1 EXCEPT !.e = ep.errors]
             [] f = "handleFailures" -> [g1 EXCEPT !.h = ep.handleFailures]
             [] f = "headers"        -> [g1 EXCEPT !.hd = ep.headers]]
  /\ UNCHANGED <<mtx, srvVars, emuVars, crashVars, bootVars>>

\* mtx.RUnlock(): the handler goes on with its locals.
RUnlock(g) ==
  /\ gor[g].pc = "read"
  /\ gor[g].n = 4
  /\ mtx' = [mtx EXCEPT !.r = @ - 1]
  /\ gor' = [gor EXCEPT ![g] = NoHandler]
  /\ UNCHANGED <<srvVars, emuVars, crashVars, bootVars>>

\* A setter that accepted the value of path starts its write on g:
\* mtx.Lock() returns.
Lock(g, path) ==
  /\ gor[g].pc = "out"
  /\ CanLock(mtx)
  /\ mtx' = [mtx EXCEPT !.w = TRUE]
  /\ gor' = [gor EXCEPT ![g] = [NoHandler EXCEPT !.pc = "write", !.path = path,
                                  !.handler = Route(path).handler]]
  /\ UNCHANGED <<srvVars, emuVars, crashVars, bootVars>>

\* The setter on g assigns its field.
WriteField(g) ==
  /\ gor[g].pc = "write"
  /\ store' = [store EXCEPT ![Ingress] =
                 SetterResult(@, Ingress, gor[g].path).ep]
  /\ gor' = [gor EXCEPT ![g].pc = "unlock"]
  /\ UNCHANGED <<mtx, stack, resp, recv, sent, emuVars, crashVars, bootVars>>

\* mtx.Unlock()
Unlock(g) ==
  /\ gor[g].pc = "unlock"
  /\ mtx' = [mtx EXCEPT !.w = FALSE]
  /\ gor' = [gor EXCEPT ![g] = NoHandler]
  /\ UNCHANGED <<srvVars, emuVars, crashVars, bootVars>>

MtxInit ==
  /\ Init
  /\ store = [s \in Svc |-> Endpoints(0, 0, I64Zero, FALSE)]

MtxNext ==
  \/ \E g \in Readers, handler \in {"proxy", "echoHandler"} : RLock(g, handler)
  \/ \E g \in Readers : ReadField(g)
  \/ \E g \in Readers : RUnlock(g)
  \/ \E g \in Writers, path \in MtxSetterPaths : Lock(g, path)
  \/ \E g \in Writers : WriteField(g)
  \/ \E g \in Writers : Unlock(g)

MtxSpec == MtxInit /\ [][MtxNext]_vars

(***************************************************************************)
(* Endpoints.crash and the end of the ingress's process.                   *)
(***************************************************************************)
\* The crash goroutines that may sleep at once.
MaxTimers == 2

\* What the client asks of the ingress while crash requests are among its
\* requests: setters with good and bad values, the echo, the proxy with
\* targets that answer, fail, or make the handler panic, and crash.
CrashRequests ==
  {<<"errors", "100">>, <<"errors", "abc">>, <<"latency", "-5">>,
   <<"graceful", "maybe">>, <<"graceful", "on">>, <<"crash", "x">>,
   <<"proxy", "B", "a%b">>, <<"headers", "101">>}
    \cup DirectPaths

CrashEmuRequests ==
  {<<"local", "serial", "latency", "0">>, <<"local", "bogus", "latency", "0">>,
   <<"local", "serial", "latency", "abc">>}

\* Every panic ends the process.
UnrecoveredAnywhere(g) == TRUE

\* No panic ends the process.
UnrecoveredNowhere(g) == FALSE

\* A panic on goroutine g ends the process: net/http recovers the panic of
\* a handler on its connection's goroutine; the goroutine that crash starts
\* with go has no recover.
Unrecovered(g) == g = "go"

\* The process ends, and all its goroutines with it: its requests in flight
\* get no response.
Exit ==
  /\ alive' = FALSE
  /\ timers' = 0
  /\ resp' = IF stack # <<>> THEN Aborted ELSE resp
  /\ stack' = <<>>
  /\ epc' = "idle"
  /\ mode' = ""
  /\ ed' = I64Zero
  /\ ei' = 0
  /\ wg' = 0
  /\ unit' = [i \in Procs |-> "idle"]
  /\ span' = [i \in Procs |-> NoSpan]
  /\ ew' = NewWriter
  /\ UNCHANGED <<store, recv, sent, mtxVars, bootVars>>

\* The handler: the response is written, the goroutine is started, the
\* handler returns.
\* A crash handler that also puts the store back to its defaults.
crashClearsStore ==
  /\ Routed("crash")
  /\ stack' = SetTop([Top EXCEPT
       !.pc = "done", !.handler = "crash",
       !.w = writeResponse(Top.svc, Top.w,
               response(StatusOK, [text |-> "crashing in 5 seconds", val |-> <<>>],
                        "", <<>>))])
  /\ timers' = timers + 1
  /\ recv' = Received
  /\ store' = [s \in Svc |-> Endpoints(0, 0, I64Zero, FALSE)]
  /\ UNCHANGED <<resp, sent, alive, emuVars, mtxVars, bootVars>>

crash ==
  /\ Routed("crash")
  /\ stack' = SetTop([Top EXCEPT
       !.pc = "done", !.handler = "crash",
       !.w = writeResponse(Top.svc, Top.w,
               response(StatusOK, [text |-> "crashing in 5 seconds", val |-> <<>>],
                        "", <<>>))])
  /\ timers' = timers + 1
  /\ recv' = Received
  /\ UNCHANGED <<store, resp, sent, alive, emuVars, mtxVars, bootVars>>

\* The goroutine of crash: the sleep is over, it panics.
crashTask ==
  /\ alive
  /\ timers > 0
  /\ Unrecovered("go")
  /\ Exit

\* The ingress handler has returned, or has panicked.
CrashDeliver ==
  /\ Len(stack) = 1
  /\ Top.pc = "done"
  /\ IF Top.panic /\ Unrecovered("handler") THEN Exit ELSE Deliver

CrashInit ==
  /\ Init
  /\ store = [s \in Svc |-> Endpoints(0, 0, I64Zero, FALSE)]

\* The client sends one request at a time to the running process.
CrashSend(path) ==
  /\ alive
  /\ epc \in {"idle", "returned"}
  /\ path[1] = "crash" => timers < MaxTimers
  /\ Send(path, <<>>)

CrashEmulate(path) ==
  /\ alive
  /\ stack = <<>>
  /\ emulateConcurrency(path)

CrashNext ==
  \/ \E path \in CrashRequests : CrashSend(path)
  \/ setErrors
  \/ setDoubleHeaders
  \/ setLatency
  \/ setHandleFailures
  \/ crash
  \/ proxy
  \/ \E n \in Draws : proxyRoll(n)
  \/ \E status \in StubStatuses : StubReply(status)
  \/ TransportError
  \/ echoHandler
  \/ \E n \in Draws : echoRoll(n)
  \/ \E n \in Draws : echoRespond(n)
  \/ CrashDeliver
  \/ \E path \in CrashEmuRequests : CrashEmulate(path)
  \/ emuLoop
  \/ emuCallReturn
  \/ emuWait
  \/ \E i \in Procs : procStart(i)
  \/ \E i \in Procs, k \in 1..2 : procDeferred(i, k)
  \/ crashTask

\* The scheduler runs the goroutine of crash when its sleep is over.
CrashSpec == CrashInit /\ [][CrashNext]_vars /\ WF_vars(crashTask)

(***************************************************************************)
(* The setters of latency and of failure handling, on many values.         *)
(***************************************************************************)
\* The values asked of setLatency: bare numbers and durations, small,
\* negative, and near the ends of the 64-bit range.
LatencyValues ==
  {"0", "60", "60ms", "-5", "-5ms", "abc", "+7", "18446744073710",
   "18446744073710ms", "9223372036855", "9223372036855ms"}

\* The values asked of setHandleFailures: the tokens of the switch, some of
\* them in upper case, and other words.
TokenValues ==
  {"1", "on", "yes", "y", "true", "t", "0", "off", "no", "n", "false", "f",
   "TRUE", "Yes", "T", "N", "OFF", "oFf", "2", "tru", "yess", "of", "01",
   "maybe", "abc"}

SetterRequests ==
  {<<"latency", v>> : v \in LatencyValues}
    \cup {<<"graceful", v>> : v \in TokenValues}

SetterInit ==
  /\ Init
  /\ store = [s \in Svc |-> Endpoints(0, 0, I64Zero, FALSE)]

(***************************************************************************)
(* The router of the ingress, asked with any method.                       *)
(***************************************************************************)
\* What the client reads from the method-not-allowed handler.
MethodNotAllowed ==
  [kind |-> "http", status |-> StatusMethodNotAllowed, ctype |-> <<>>,
   body |-> <<>>]

\* The router serves a request: it hands it to the handler of the route
\* matched, or answers itself.
ServeHTTP(method, path) ==
  /\ stack = <<>>
  /\ path[1] = "crash" => timers < MaxTimers
  /\ IF Match(method, path).handler = "methodNotAllowed"
     THEN /\ resp' = MethodNotAllowed
          /\ recv' = <<>>
          /\ sent' = <<>>
          /\ UNCHANGED <<store, stack>>
          /\ UNCHANGED <<emuVars, mtxVars, crashVars, bootVars>>
     ELSE Send(path, <<>>)

RouterInit ==
  /\ Init
  /\ store = [s \in Svc |-> Endpoints(0, 0, I64Zero, FALSE)]

RouterNext ==
  \/ \E method \in Methods, path \in RouterPaths : ServeHTTP(method, path)
  \/ setDoubleHeaders
  \/ setErrors
  \/ setHandleFailures
  \/ setLatency
  \/ crash
  \/ proxy
  \/ \E n \in Draws : proxyRoll(n)
  \/ TransportError
  \/ echoHandler
  \/ \E n \in Draws : echoRoll(n)
  \/ \E n \in Draws : echoRespond(n)
  \/ Deliver

RouterSpec == RouterInit /\ [][RouterNext]_vars

SetterNext ==
  \/ \E path \in SetterRequests : Send(path, <<>>)
  \/ setLatency
  \/ setHandleFailures
  \/ Deliver

SetterSpec == SetterInit /\ [][SetterNext]_vars

(***************************************************************************)
(* run.Group.Run of main: the units validate, the pre-runners run, the     *)
(* services serve until one returns or a signal comes, then all stop.      *)
(* The units, in the order main registers them: the tracing facade, the    *)
(* endpoints, the HTTP server, the pre-runner that hands over the handler. *)
(***************************************************************************)
\* observability.Service.Validate
obsValidate ==
  /\ boot.pc = "validate"
  /\ boot.step = 1
  /\ boot' = [boot EXCEPT
       !.errs = @ \cup ObsValidate(boot.cfg.ObservabilityInstrumenter,
                                   boot.cfg.Instrumenters),
       !.step = 2]
  /\ UNCHANGED <<srvVars, emuVars, mtxVars, crashVars, probe>>

\* Endpoints.Validate, on the flags' defaults
epValidate ==
  /\ boot.pc = "validate"
  /\ boot.step = 2
  /\ boot' = [boot EXCEPT
       !.errs = @ \cup Validate(Endpoints(0, 0, I64Zero, FALSE)),
       !.step = 3]
  /\ UNCHANGED <<srvVars, emuVars, mtxVars, crashVars, probe>>

\* http.Service.Validate, the last: Run returns the errors if there are any.
httpValidate ==
  /\ boot.pc = "validate"
  /\ boot.step = 3
  /\ LET errs == boot.errs \cup HttpValidate(boot.cfg.ListenAddress)
     IN  boot' = [boot EXCEPT !.errs = errs, !.step = 1,
                              !.pc = IF errs = {} THEN "prerun" ELSE "failed"]
  /\ UNCHANGED <<srvVars, emuVars, mtxVars, crashVars, probe>>

\* observability.Service.PreRun: the delegate is set and its PreRun called
\* (a nil delegate panics); Run returns the error if there is one.
obsPreRun(reporterErr, tracerErr) ==
  /\ boot.pc = "prerun"
  /\ boot.step = 1
  /\ LET r == ObsPreRun(boot, reporterErr, tracerErr)
     IN  boot' = [r.b EXCEPT
                    !.step = IF r.b.panic THEN @ ELSE 2,
                    !.pc = IF r.b.panic \/ r.err THEN "failed" ELSE "prerun"]
  /\ UNCHANGED <<srvVars, emuVars, mtxVars, crashVars, probe>>

\* Endpoints.PreRun: the tracer and the middleware of the instrumenter.
epPreRun ==
  /\ boot.pc = "prerun"
  /\ boot.step = 2
  /\ LET r == EpPreRun(boot)
     IN  boot' = IF r.err
                 THEN [r.b EXCEPT !.pc = "failed",
                                  !.errs = {"missing tracer to attach to"}]
                 ELSE [r.b EXCEPT !.step = 3]
  /\ UNCHANGED <<srvVars, emuVars, mtxVars, crashVars, probe>>

\* The last pre-runner: svcHTTP.Handler = svcEndpoints.Handler(); the
\* services start.
handlerPreRun ==
  /\ boot.pc = "prerun"
  /\ boot.step = 3
  /\ boot' = [boot EXCEPT !.pc = "serve", !.step = 1, !.http = "starting",
                          !.obs = "starting", !.Handler = boot.handler]
  /\ UNCHANGED <<srvVars, emuVars, mtxVars, crashVars, probe>>

\* observability.Service.Serve: the delegate's Serve waits for its closer.
obsServe ==
  /\ boot.pc \in {"serve", "stop"}
  /\ boot.obs = "starting"
  /\ boot' = [ObsServe(boot) EXCEPT !.obs = "serving"]
  /\ UNCHANGED <<srvVars, emuVars, mtxVars, crashVars, probe>>

\* http.Service.Serve; listenErr: net.Listen returns an error.
httpServe(listenErr) ==
  /\ boot.pc = "serve"
  /\ boot.http = "starting"
  /\ boot' = [boot EXCEPT !.http = IF listenErr THEN "returned" ELSE "serving",
                          !.srv = HttpServe(@, listenErr)]
  /\ UNCHANGED <<srvVars, emuVars, mtxVars, crashVars, probe>>

\* A handler asks the facade for the span of its request's context, which
\* holds an active span or none.
SpanFromContext(active) ==
  /\ boot.pc = "serve"
  /\ boot.http = "serving"
  /\ boot' = [boot EXCEPT
       !.last = Forward(boot.delegate, "SpanFromContext"),
       !.sp = BackendSpanFromContext(boot.svc[boot.delegate].name, active),
       !.panic = FALSE]
  /\ UNCHANGED <<srvVars, emuVars, mtxVars, crashVars, probe>>

\* A method of the span the handler got.
spanCall(op) ==
  /\ boot.pc = "serve"
  /\ boot.sp # NoAdapter
  /\ ~boot.panic
  /\ boot' = [boot EXCEPT !.sp.called = @ \cup {op},
                          !.panic = AdapterPanics(boot.sp, op)]
  /\ UNCHANGED <<srvVars, emuVars, mtxVars, crashVars, probe>>

\* A handler asks the facade for its tracer or for a transport.
obsCall(op) ==
  /\ boot.pc = "serve"
  /\ boot.http = "serving"
  /\ boot' = [boot EXCEPT !.last = Forward(boot.delegate, op)]
  /\ UNCHANGED <<srvVars, emuVars, mtxVars, crashVars, probe>>

\* A signal comes or a service has returned: the group stops its services.
interrupt ==
  /\ boot.pc = "serve"
  /\ boot' = [boot EXCEPT !.pc = "stop", !.step = 1]
  /\ UNCHANGED <<srvVars, emuVars, mtxVars, crashVars, probe>>

\* observability.Service.GracefulStop
obsGracefulStop ==
  /\ boot.pc = "stop"
  /\ boot.step = 1
  /\ boot' = [ObsGracefulStop(boot) EXCEPT !.step = 2]
  /\ UNCHANGED <<srvVars, emuVars, mtxVars, crashVars, probe>>

\* http.Service.GracefulStop, the last: Run returns.
httpGracefulStop ==
  /\ boot.pc = "stop"
  /\ boot.step = 2
  /\ boot' = [boot EXCEPT !.http = "stopped", !.pc = "stopped",
                          !.srv = HttpGracefulStop(@),
                          !.obs = IF @ = "serving" THEN "returned" ELSE @]
  /\ UNCHANGED <<srvVars, emuVars, mtxVars, crashVars, probe>>

(***************************************************************************)
(* A call of pkg.HasError on two of the errors of its test.                *)
(***************************************************************************)
hasError ==
  /\ probe.in # <<>>
  /\ probe.out = <<>>
  /\ probe' = [probe EXCEPT !.out = <<HasError(probe.in[1], probe.in[2])>>]
  /\ UNCHANGED <<srvVars, emuVars, mtxVars, crashVars, boot>>

ProbeInit ==
  /\ Serving
  /\ boot = NewGroup(DefaultConfig)
  /\ \E err \in DOMAIN TestErrors, target \in DOMAIN TestErrors :
       probe = [in |-> <<err, target>>, out |-> <<>>]

ProbeNext == hasError

ProbeSpec == ProbeInit /\ [][ProbeNext]_vars

(***************************************************************************)
(* The run group of main, with and without an instrumenter for the         *)
(* endpoints.                                                              *)
(***************************************************************************)
WireConfigs ==
  {[DefaultConfig EXCEPT !.ObservabilityInstrumenter = name,
                         !.Instrumenter = ins] :
     name \in {ZipkinInstrumenter, SkywalkingInstrumenter},
     ins \in {"svcObs", "nil"}}

WireInit ==
  /\ Serving
  /\ store = [s \in Svc |-> Endpoints(0, 0, I64Zero, FALSE)]
  /\ \E cfg \in WireConfigs : boot = NewGroup(cfg)
  /\ probe = NoProbe

(***************************************************************************)
(* The methods of the tracing facade and of its backends, called by a      *)
(* caller that is not the run group: in any order, validated or not.  A    *)
(* panic ends the caller.                                                  *)
(***************************************************************************)
\* The configurations of the facade a caller makes.
UnitConfigs ==
  {[DefaultConfig EXCEPT !.ObservabilityInstrumenter = name,
                         !.Instrumenters = ins, !.Reporter = rep] :
     name \in {ZipkinInstrumenter, SkywalkingInstrumenter, "jaeger"},
     ins \in {<<ZipkinInstrumenter, SkywalkingInstrumenter>>, <<ZipkinInstrumenter>>},
     rep \in {"nil", "given"}}

\* The backends a facade of the model holds at most.
Backends == 1..Len(supportedInstrumenters)

Panicked == boot.panic \/ \E i \in 1..Len(boot.svc) : boot.svc[i].panic

Direct == boot.pc = "direct" /\ ~Panicked

\* observability.Service.PreRun
facadePreRun(reporterErr, tracerErr) ==
  /\ Direct
  /\ boot.delegate = 0
  /\ \A i \in 1..Len(boot.svc) :
       boot.svc[i].opened = 0 /\ boot.svc[i].closer = "nil"
  /\ LET r == ObsPreRun(boot, reporterErr, tracerErr)
     IN  boot' = [r.b EXCEPT !.errs = IF r.err THEN {"PreRun"} ELSE {}]
  /\ UNCHANGED <<srvVars, emuVars, mtxVars, crashVars, probe>>

\* observability.Service.Serve
facadeServe ==
  /\ Direct
  /\ boot' = ObsServe(boot)
  /\ UNCHANGED <<srvVars, emuVars, mtxVars, crashVars, probe>>

\* observability.Service.GracefulStop
facadeGracefulStop ==
  /\ Direct
  /\ boot' = ObsGracefulStop(boot)
  /\ UNCHANGED <<srvVars, emuVars, mtxVars, crashVars, probe>>

\* zipkin.Service.PreRun or skywalking.Service.PreRun, on the i-th backend.
backendPreRun(i, reporterErr, tracerErr) ==
  /\ Direct
  /\ i <= Len(boot.svc)
  /\ boot.svc[i].opened = 0
  /\ boot.svc[i].closer = "nil"
  /\ LET s == boot.svc[i]
         r == IF s.name = ZipkinInstrumenter
              THEN zipkinPreRun(s, tracerErr)
              ELSE skywalkingPreRun(s, reporterErr, tracerErr)
     IN  boot' = [boot EXCEPT !.svc[i] = r.s]
  /\ UNCHANGED <<srvVars, emuVars, mtxVars, crashVars, probe>>

\* Serve of the i-th backend, on a goroutine of the caller.
backendServe(i) ==
  /\ Direct
  /\ i <= Len(boot.svc)
  /\ boot' = [boot EXCEPT !.svc[i] = BackendServe(@)]
  /\ UNCHANGED <<srvVars, emuVars, mtxVars, crashVars, probe>>

\* GracefulStop of the i-th backend.
backendGracefulStop(i) ==
  /\ Direct
  /\ i <= Len(boot.svc)
  /\ boot' = [boot EXCEPT !.svc[i] = BackendGracefulStop(@)]
  /\ UNCHANGED <<srvVars, emuVars, mtxVars, crashVars, probe>>

UnitInit ==
  /\ Serving
  /\ store = [s \in Svc |-> Endpoints(0, 0, I64Zero, FALSE)]
  /\ \E cfg \in UnitConfigs : boot = [NewGroup(cfg) EXCEPT !.pc = "direct"]
  /\ probe = NoProbe

UnitNext ==
  \/ \E reporterErr \in BOOLEAN, tracerErr \in BOOLEAN :
       facadePreRun(reporterErr, tracerErr)
  \/ facadeServe
  \/ facadeGracefulStop
  \/ \E i \in Backends, reporterErr \in BOOLEAN, tracerErr \in BOOLEAN :
       backendPreRun(i, reporterErr, tracerErr)
  \/ \E i \in Backends : backendServe(i)
  \/ \E i \in Backends : backendGracefulStop(i)

UnitSpec == UnitInit /\ [][UnitNext]_vars

(***************************************************************************)
(* The methods of the HTTP service, called by a caller that is not the run *)
(* group: in any order, its flags read or not.  A panic ends the caller.   *)
(***************************************************************************)
\* The listen addresses a caller gives.
HttpConfigs ==
  {[DefaultConfig EXCEPT !.ListenAddress = a] :
     a \in {":8000", "8000", "a:b:c", "", ":9411", "abc", "zipkin", "0",
            "50", "100"}}

HttpDirect == boot.pc = "http" /\ ~boot.srv.panic

\* http.Service.FlagSet
serviceFlagSet ==
  /\ HttpDirect
  /\ boot' = [boot EXCEPT
       !.srv = HttpFlagSet(@),
       !.cfg.ListenAddress = IF @ = "" THEN ":8000" ELSE @]
  /\ UNCHANGED <<srvVars, emuVars, mtxVars, crashVars, probe>>

\* http.Service.Validate
serviceValidate ==
  /\ HttpDirect
  /\ boot' = [boot EXCEPT !.errs = HttpValidate(boot.cfg.ListenAddress)]
  /\ UNCHANGED <<srvVars, emuVars, mtxVars, crashVars, probe>>

\* http.Service.Serve, on a goroutine of the caller while it serves.  No
\* listener is made on an address that is no host and port; the port of one
\* that is may be taken.
serviceServe(listenErr) ==
  /\ HttpDirect
  /\ boot.srv.ret # "blocked"
  /\ HttpValidate(boot.cfg.ListenAddress) # {} /\ boot.cfg.ListenAddress # ""
       => listenErr
  /\ boot' = [boot EXCEPT !.srv = HttpServe(@, listenErr)]
  /\ UNCHANGED <<srvVars, emuVars, mtxVars, crashVars, probe>>

\* http.Service.GracefulStop
serviceGracefulStop ==
  /\ HttpDirect
  /\ boot' = [boot EXCEPT !.srv = HttpGracefulStop(@)]
  /\ UNCHANGED <<srvVars, emuVars, mtxVars, crashVars, probe>>

HttpInit ==
  /\ Serving
  /\ store = [s \in Svc |-> Endpoints(0, 0, I64Zero, FALSE)]
  /\ \E cfg \in HttpConfigs :
       boot = [NewGroup(cfg) EXCEPT !.pc = "http", !.srv = HttpService]
  /\ probe = NoProbe

HttpNext ==
  \/ serviceFlagSet
  \/ serviceValidate
  \/ \E listenErr \in BOOLEAN : serviceServe(listenErr)
  \/ serviceGracefulStop

HttpSpec == HttpInit /\ [][HttpNext]_vars

(***************************************************************************)
(* Endpoints.Validate on the values the flags of an instance gave.         *)
(***************************************************************************)
\* The values of the flags: in range, at its ends and out of it.
StartupValues ==
  {Endpoints(e, h, d, hf) :
     e \in {-1, 0, 50, 100, 101},
     h \in {-1, 0, 50, 100, 101},
     d \in {I64Neg(I64(1)), I64Neg(I64(5000000)), I64Zero, I64(5000000)},
     hf \in BOOLEAN}

\* Endpoints.Validate of the instance s.
endpointsValidate(s) ==
  /\ boot.pc = "flags"
  /\ boot' = [boot EXCEPT !.errs = Validate(store[s]), !.pc = "validated"]
  /\ UNCHANGED <<srvVars, emuVars, mtxVars, crashVars, probe>>

FlagInit ==
  /\ Quiet
  /\ \E ep \in StartupValues : store = [s \in Svc |-> ep]
  /\ boot = [NewGroup(DefaultConfig) EXCEPT !.pc = "flags"]
  /\ probe = NoProbe

FlagNext == \E s \in Svc : endpointsValidate(s)

FlagSpec == FlagInit /\ [][FlagNext]_vars

BootInit ==
  /\ Serving
  /\ store = [s \in Svc |-> Endpoints(0, 0, I64Zero, FALSE)]
  /\ \E cfg \in BootConfigs : boot = NewGroup(cfg)
  /\ probe = NoProbe

BootNext ==
  \/ obsValidate
  \/ epValidate
  \/ httpValidate
  \/ \E reporterErr \in BOOLEAN, tracerErr \in BOOLEAN :
       obsPreRun(reporterErr, tracerErr)
  \/ epPreRun
  \/ handlerPreRun
  \/ obsServe
  \/ \E listenErr \in BOOLEAN : httpServe(listenErr)
  \/ \E active \in BOOLEAN : SpanFromContext(active)
  \/ \E op \in {"TraceID", "Tag", "Finish"} : spanCall(op)
  \/ \E op \in {"Tracer", "Transport"} : obsCall(op)
  \/ interrupt
  \/ obsGracefulStop
  \/ httpGracefulStop

BootSpec == BootInit /\ [][BootNext]_vars

WireSpec == WireInit /\ [][BootNext]_vars

(***************************************************************************)
(* Properties.                                                             *)
(***************************************************************************)
\* The frame that was the top frame before a step, after it.
TopAfter == stack'[Len(stack)]

\* The one envelope a writer holds.
Envelope(w) == w.body[1]

\* A writer holds the envelope of service name with a status and an error.
HoldsError(w, name, status, error) ==
  /\ w.wrote
  /\ w.status = status
  /\ Len(w.body) = 1
  /\ Envelope(w).service = name
  /\ Envelope(w).code = status
  /\ Envelope(w).error = error

----------------------------------------------------------------------------
\* C1: in every reachable state, whatever setter requests (valid or not, of
\* the client or of others meanwhile) were handled since a start from
\* validated flags, every instance's errors and headers are within 0..100
\* and its duration is not negative.
StoreInRange ==
  \A s \in Svc :
    /\ store[s].errors \in 0..100
    /\ store[s].headers \in 0..100
    /\ ~I64IsNeg(store[s].duration)

\* Accepted values are stored and the last request, a setter's, was refused.
StoreInRangeWitness ==
  /\ store[Ingress].errors = 50
  /\ store[Ingress].headers = 100
  /\ store[Ingress].duration = I64MulWrap(I64(60000), 1000)
  /\ resp.kind = "http"
  /\ resp.status = StatusBadRequest

----------------------------------------------------------------------------
\* The number a string of at most four digits denotes.
RECURSIVE DecimalValue(_)
DecimalValue(cs) ==
  IF cs = <<>> THEN 0
  ELSE 10 * DecimalValue(SubSeq(cs, 1, Len(cs) - 1)) + DigitVal(cs[Len(cs)])

\* cs writes an integer of 0..100: digits after an optional sign.
IsPercentage(cs) ==
  LET signed == cs # <<>> /\ cs[1] \in {"+", "-"}
      ds     == IF signed THEN Tail(cs) ELSE cs
  IN  /\ ds # <<>>
      /\ Len(ds) <= 4
      /\ \A i \in 1..Len(ds) : ds[i] \in Digits
      /\ DecimalValue(ds) <= 100
      /\ (cs[1] = "-" => DecimalValue(ds) = 0)

RejectedPercentage ==
  /\ HoldsError(TopAfter.w, Top.svc, StatusBadRequest, errPercentage)
  /\ store' = store

\* C2: a setErrors or setDoubleHeaders request whose value is no integer of
\* 0..100 is answered with status 400 and the percentage error, and leaves
\* the stored percentage (the whole store) as it was.
PercentageRejected ==
  [][/\ setErrors =>
          (~IsPercentage(Chars(Route(Top.path).var)) => RejectedPercentage)
     /\ setDoubleHeaders =>
          (~IsPercentage(Chars(Route(Top.path).var)) => RejectedPercentage)]_vars

\* setErrors has refused a value at an instance that stores 50.
PercentageRejectedWitness ==
  /\ stack # <<>>
  /\ Top.handler = "setErrors"
  /\ Top.pc = "done"
  /\ HoldsError(Top.w, Top.svc, StatusBadRequest, errPercentage)
  /\ store[Top.svc].errors = 50

----------------------------------------------------------------------------
\* C3: the proxy answers itself with status 500 and the internal-failure
\* error, calling no next hop, exactly when the draw is below the errors it
\* read; so at errors 100 every draw ends so, and at errors 0 none does.
ProxyShortCircuit ==
  [][\A n \in Draws :
       proxyRoll(n) =>
         LET failed == /\ TopAfter.pc = "done"
                       /\ ~TopAfter.panic
                       /\ HoldsError(TopAfter.w, Top.svc,
                                     StatusInternalServerError, errInternal)
                       /\ sent' = sent
                       /\ Len(stack') = Len(stack)
         IN  /\ failed <=> (n < Top.e)
             /\ Top.e = 100 => failed
             /\ Top.e = 0 => ~failed
             /\ ~failed => ~TopAfter.w.wrote]_vars

\* A proxy request that read errors 100 has been answered; nothing was sent.
ProxyShortCircuitWitness ==
  /\ stack # <<>>
  /\ Top.handler = "proxy"
  /\ Top.e = 100
  /\ Top.pc = "done"
  /\ HoldsError(Top.w, Top.svc, StatusInternalServerError, errInternal)
  /\ sent = <<>>

----------------------------------------------------------------------------
\* A host that is no URL host: it holds a space.
MalformedHost(h) == \E i \in 1..Len(Chars(h)) : Chars(h)[i] = " "

\* The path names the proxy route without a usable target.
NoProxyTarget(path) ==
  /\ path # <<>>
  /\ path[1] = "proxy"
  /\ \/ Len(path) = 1
     \/ path[2] = ""
     \/ MalformedHost(path[2])

\* C4: a request for /proxy, /proxy/ or /proxy/{host} with a malformed host
\* is answered with status 400 and the proxy-service error, and no outbound
\* call is made.
NoProxyTarget400 ==
  \A i \in 1..Len(stack) :
    (stack[i].pc = "done" /\ NoProxyTarget(stack[i].path)) =>
      /\ ~stack[i].panic
      /\ HoldsError(stack[i].w, stack[i].svc, StatusBadRequest, errProxyService)
      /\ \A k \in 1..Len(sent) : sent[k].from # stack[i].svc

----------------------------------------------------------------------------
\* The hop f was given the response r of its next hop and holds writer w:
\* what C5 and C6 say of every such step.
Absorbs(f, r, w) ==
  (f.h /\ r.kind = "http" /\ r.status # StatusOK) =>
    /\ w.wrote
    /\ w.status = StatusOK
    /\ w.sent = <<"application/json">>
    /\ Len(w.body) = 1
    /\ Envelope(w).service = f.svc
    /\ Envelope(w).code = StatusOK
    /\ Envelope(w).error = ""
    /\ Envelope(w).message.val.raw = r.body
    /\ w.nWriteHeader = 2

\* C5: when a proxy request read handleFailures true and its next hop
\* answers with a status other than 200, the caller is sent status 200 with
\* this instance's envelope, whose message holds the next hop's body; the
\* WriteHeader of the reverse proxy's error handling, which follows the
\* "bail" error, leaves that status as sent.
FailureAbsorbed ==
  [][/\ Return =>
          Absorbs(stack[Len(stack) - 1], TopResult, stack'[Len(stack')].w)
     /\ \A status \in StubStatuses :
          StubReply(status) => Absorbs(Top, StubResponse(status), TopAfter.w)]_vars

\* The ingress has absorbed the failure of the stub server.
FailureAbsorbedWitness ==
  /\ Len(stack) = 1
  /\ Top.handler = "proxy"
  /\ Top.host = StubHost
  /\ Top.pc = "done"
  /\ Top.h
  /\ Top.w.status = StatusOK
  /\ Top.w.nWriteHeader = 2
  /\ Envelope(Top.w).service = Ingress
  /\ Envelope(Top.w).message.val.raw = <<StubBody>>

----------------------------------------------------------------------------
Forwards(f, r, w) ==
  (r.kind = "http" /\ (r.status = StatusOK \/ ~f.h)) =>
    /\ w.wrote
    /\ w.status = r.status
    /\ w.body = r.body
    /\ w.sent = r.ctype

\* C6: a response of the next hop with status 200 is forwarded to the
\* caller as it is, status and body, whatever handleFailures was read; when
\* handleFailures was read false, so is a response with any status.
ResponseForwarded ==
  [][/\ Return =>
          Forwards(stack[Len(stack) - 1], TopResult, stack'[Len(stack')].w)
     /\ \A status \in StubStatuses :
          StubReply(status) => Forwards(Top, StubResponse(status), TopAfter.w)]_vars

\* The ingress has forwarded the stub server's 503.
ResponseForwardedWitness ==
  /\ Len(stack) = 1
  /\ Top.handler = "proxy"
  /\ Top.host = StubHost
  /\ Top.pc = "done"
  /\ ~Top.h
  /\ Top.w.status = 503
  /\ Top.w.body = <<StubBody>>

----------------------------------------------------------------------------
\* C7: the request a hop receives carries the Proxied-By values its caller
\* received, followed by the caller's name: none is removed, and the chain
\* A -> B -> C of a client that sent none gives <<"A", "B">> at C.
ProxiedByAccumulates ==
  /\ \A i \in 2..Len(recv) :
       recv[i].hdr = recv[i - 1].hdr \o <<recv[i - 1].svc>>
  /\ (/\ Len(recv) >= 3
      /\ recv[1].hdr = <<>>
      /\ <<recv[1].svc, recv[2].svc, recv[3].svc>> = <<"A", "B", "C">>)
       => recv[3].hdr = <<"A", "B">>

\* C has answered a request that went through A and B.
ProxiedByAccumulatesWitness ==
  /\ Len(recv) = 3
  /\ recv[3].svc = "C"
  /\ recv[3].hdr = <<"A", "B">>
  /\ Len(stack) = 3
  /\ Top.svc = "C"
  /\ Top.pc = "done"

----------------------------------------------------------------------------
\* Two paths name the same resource: the empty path is sent as "/".
SamePath(p, q) == p = q \/ ({p, q} \subseteq {<<>>, <<"">>})

\* C8: the request a hop receives has the path its caller received less
\* the leading /proxy/{host}, and nothing else of it is changed.
DirectiveStripped ==
  \A i \in 2..Len(recv) :
    /\ SamePath(recv[i].path, SubSeq(recv[i - 1].path, 3, Len(recv[i - 1].path)))
    /\ recv[i].query = recv[i - 1].query

----------------------------------------------------------------------------
AllSpansFinished == \A i \in Procs : span[i].finished = 1 /\ span[i].name = <<"proc", i>>

\* C9: in the modes parallel and mixed the handler writes its response and
\* returns only when all 8 spans are finished, however the methods are
\* scheduled: a method's span is finished when it signals the wait group;
\* and a handler that has started always returns.
ReturnsAfterAllFinished ==
  /\ [](mode \in {"parallel", "mixed"} /\ (ew.wrote \/ epc = "returned")
          => AllSpansFinished)
  /\ [][\A i \in Procs, k \in 1..2 :
          (procDeferred(i, k) /\ wg' # wg) => span[i].finished = 1]_vars
  /\ [](epc \in {"loop", "call", "wait"} => <>(epc = "returned"))

\* The handler has returned from a parallel run.
ReturnsAfterAllFinishedWitness ==
  /\ mode = "parallel"
  /\ epc = "returned"
  /\ ew.status = StatusOK
  /\ wg = 0
  /\ AllSpansFinished

----------------------------------------------------------------------------
\* The spans started and not finished.
OpenSpans == {i \in Procs : span[i] # NoSpan /\ span[i].finished = 0}

\* C10: in the mode serial the spans proc-0 .. proc-7, 8 in all, are each
\* started and finished once before the handler returns; a span is finished
\* when all of lower index are and none of higher index is started; and at
\* most one span is open at a time.
SerialInOrder ==
  /\ [](mode = "serial" =>
          /\ Cardinality(OpenSpans) <= 1
          /\ (epc = "returned" => Cardinality(Procs) = 8 /\ AllSpansFinished))
  /\ [][mode = "serial" =>
          \A i \in Procs :
            span'[i].finished > span[i].finished =>
              /\ span'[i].finished = 1
              /\ \A j \in Procs : j < i => span[j].finished = 1
              /\ \A j \in Procs : j > i => span[j] = NoSpan]_vars

\* The handler has returned from a serial run.
SerialInOrderWitness ==
  /\ mode = "serial"
  /\ epc = "returned"
  /\ ew.status = StatusOK
  /\ AllSpansFinished

----------------------------------------------------------------------------
\* C11: in the mode mixed the methods of even index are started with a go
\* statement and run beside the handler, those of odd index are called by
\* the handler, by index alone; so the span of an odd method is finished
\* before any method of higher index is started.
MixedByIndex ==
  mode = "mixed" =>
    /\ epc = "call" => ei % 2 = 1
    /\ \A i \in Procs :
         i % 2 = 1 =>
           /\ unit[i] \in {"sleep", "deferred"} => (epc = "call" /\ ei = i)
           /\ \A j \in Procs :
                (j > i /\ span[j] # NoSpan) =>
                  (span[i].finished = 1 /\ unit[i] = "done")

\* Methods 0 and 2 sleep beside the handler, which has called method 1 and
\* is in its call of method 3.
MixedByIndexWitness ==
  /\ mode = "mixed"
  /\ unit[0] = "sleep"
  /\ unit[2] = "sleep"
  /\ unit[1] = "done"
  /\ epc = "call"
  /\ ei = 3
  /\ unit[3] = "sleep"

----------------------------------------------------------------------------
----------------------------------------------------------------------------
\* The fields the handler on g has copied are those of the store now.
SnapshotIsStore(g) ==
  \A k \in 1..(gor[g].n - 1) :
    LET f == ReadOrder(gor[g].handler)[k]
    IN  CASE f = "duration"       -> gor[g].d = store[Ingress].duration
          [] f = "errors"         -> gor[g].e = store[Ingress].errors
          [] f = "handleFailures" -> gor[g].h = store[Ingress].handleFailures
          [] f = "headers"        -> gor[g].hd = store[Ingress].headers

\* C13: proxy and echoHandler read their fields within one read lock and
\* every setter writes within the write lock of the same mutex, so however
\* setters and requests interleave, the values a request has read are the
\* store's at one instant: while it holds the read lock no field changes,
\* and a writer holds the mutex alone.
NoTornSnapshot ==
  /\ \A g \in Readers : gor[g].pc = "read" => SnapshotIsStore(g)
  /\ mtx.r = Cardinality({g \in Readers : gor[g].pc = "read"})
  /\ mtx.w <=> (\E g \in Writers : gor[g].pc \in {"write", "unlock"})
  /\ Cardinality({g \in Writers : gor[g].pc \in {"write", "unlock"}}) <= 1
  /\ mtx.w => mtx.r = 0

\* Both readers hold the read lock, their fields read, on a store that
\* setters have changed in every field.
NoTornSnapshotWitness ==
  /\ gor["r1"].pc = "read" /\ gor["r1"].n = 4 /\ gor["r1"].handler = "proxy"
  /\ gor["r2"].pc = "read" /\ gor["r2"].n = 4 /\ gor["r2"].handler = "echoHandler"
  /\ gor["r1"].e = 100
  /\ gor["r1"].h
  /\ gor["r2"].hd = 100
  /\ gor["r2"].d = I64MulWrap(I64(60000), 1000)

----------------------------------------------------------------------------
\* The error a request for path must be refused with at validation, "" when
\* it must not: a value that is no percentage, no duration that is zero or
\* more, no boolean token, or a proxy route without a usable target.
RefusedWith(path) ==
  CASE Len(path) = 2 /\ path[1] \in {"errors", "headers"}
         /\ ~IsPercentage(Chars(path[2]))                   -> errPercentage
    [] Len(path) = 2 /\ path[1] = "latency"
         /\ path[2] \in {"-5", "-5ms", "abc"}               -> errDuration
    [] Len(path) = 2 /\ path[1] = "graceful"
         /\ path[2] \notin {"on", "OFF"}                    -> errHandleFailures
    [] NoProxyTarget(path)                                  -> errProxyService
    [] OTHER                                                -> ""

\* The setters refuse with status 400 and their error, without a panic.
SetterFailure400 ==
  \A i \in 1..Len(stack) :
    (/\ stack[i].pc = "done"
     /\ RefusedWith(stack[i].path) \notin {"", errProxyService}) =>
      /\ ~stack[i].panic
      /\ HoldsError(stack[i].w, stack[i].svc, StatusBadRequest,
                    RefusedWith(stack[i].path))

\* C14: every request that fails validation (percentage, duration, boolean
\* token, proxy target) is answered with status 400 and the error of its
\* kind, its handler does not panic, and an answer that carries the
\* internal-failure error has status 500.
ValidationFailure400 ==
  /\ SetterFailure400
  /\ \A i \in 1..Len(stack) :
       (stack[i].pc = "done" /\ RefusedWith(stack[i].path) = errProxyService) =>
         /\ ~stack[i].panic
         /\ HoldsError(stack[i].w, stack[i].svc, StatusBadRequest,
                       errProxyService)
  /\ \A i \in 1..Len(stack) :
       (/\ stack[i].pc = "done"
        /\ stack[i].w.body # <<>>
        /\ Envelope(stack[i].w).error = errInternal) =>
         HoldsError(stack[i].w, stack[i].svc, StatusInternalServerError,
                    errInternal)

----------------------------------------------------------------------------
\* C15: the process ends only by the goroutine that a crash request
\* started: a step that ends it has such a goroutine asleep, and only the
\* crash handler starts one.  The requests to setters, emulator, proxy and
\* echo end no process: a handler's panic is recovered (its request gets no
\* response), and the wait group of the emulator never goes below zero.
OnlyCrashTerminates ==
  /\ [][(alive /\ ~alive') => timers > 0]_vars
  /\ [][timers' > timers =>
          (stack # <<>> /\ Top.pc = "recv" /\ Top.path[1] = "crash")]_vars
  /\ [](wg >= 0)

\* The process runs although a proxy handler has panicked and the emulator
\* has served a request; no crash was asked for.
OnlyCrashTerminatesWitness ==
  /\ alive
  /\ timers = 0
  /\ resp = Aborted
  /\ recv # <<>>
  /\ recv[1].path[1] = "proxy"
  /\ epc = "returned"
  /\ mode = "serial"

\* C16: the crash handler returns with its response of status 200 written
\* and its goroutine started, the process still running; the goroutine ends
\* the process whatever became of the request; and once a crash request
\* was handled the process ends.
CrashTerminates ==
  /\ [][crash =>
          /\ TopAfter.pc = "done"
          /\ TopAfter.w.wrote
          /\ TopAfter.w.status = StatusOK
          /\ Envelope(TopAfter.w).code = StatusOK
          /\ Envelope(TopAfter.w).message.text = "crashing in 5 seconds"
          /\ timers' = timers + 1
          /\ alive']_vars
  /\ [][(timers > 0 /\ timers' = 0) => ~alive']_vars
  /\ [](timers > 0 => <>(~alive))

\* The process has ended before the response of the crash request reached
\* the client.
CrashTerminatesWitness ==
  /\ ~alive
  /\ resp = Aborted
  /\ recv # <<>>
  /\ recv[1].path[1] = "crash"

----------------------------------------------------------------------------
\* A bare number and the same number with the unit ms.
MillisPairs ==
  {<<"60", "60ms">>, <<"18446744073710", "18446744073710ms">>,
   <<"9223372036855", "9223372036855ms">>}

\* setLatency handles the bare number p[1] as it would handle p[2].
SameAsMillis(p) ==
  (setLatency /\ Route(Top.path).var = p[1]) =>
    LET other == SetLatencyResult(store[Top.svc], Top.svc, NewWriter, p[2])
    IN  /\ store'[Top.svc].duration = other.ep.duration
        /\ TopAfter.w.status = other.w.status

\* The values that are a negative number or duration.
NegativeValues == {"-5", "-5ms"}

NegativeRejected ==
  (setLatency /\ Route(Top.path).var \in NegativeValues) =>
    /\ HoldsError(TopAfter.w, Top.svc, StatusBadRequest, errDuration)
    /\ store' = store

\* 60 and 60ms are accepted and store 60 milliseconds; a negative value is
\* refused.
SixtyAsMillis ==
  [][/\ SameAsMillis(<<"60", "60ms">>)
     /\ (setLatency /\ Route(Top.path).var \in {"60", "60ms"}) =>
           /\ TopAfter.w.status = StatusOK
           /\ store'[Top.svc].duration = I64MulWrap(I64(60000), 1000)
     /\ NegativeRejected]_vars

\* C17: setLatency accepts 60 and 60ms and stores 60 milliseconds for both;
\* for every bare number n of zero or more it stores what it stores for
\* "n ms" (and answers alike); a negative value is refused with status 400
\* and the duration error, and the stored latency stays.
BareNumberAsMillis ==
  /\ SixtyAsMillis
  /\ [][\A p \in MillisPairs : SameAsMillis(p)]_vars

----------------------------------------------------------------------------
\* The values of TokenValues that are, in some case, one of 1, on, yes, y,
\* true, t; and those that are one of 0, off, no, n, false, f.
SpellTrue == {"1", "on", "yes", "y", "true", "t", "TRUE", "Yes", "T"}

SpellFalse == {"0", "off", "no", "n", "false", "f", "N", "OFF", "oFf"}

\* C18: setHandleFailures accepts exactly the tokens 1, on, yes, y, true, t
\* (the flag becomes true) and 0, off, no, n, false, f (the flag becomes
\* false), in any case; every other value is answered with status 400 and
\* the boolean error, and the flag (the whole store) stays as it was.
ExactlyTheTokens ==
  [][setHandleFailures =>
       LET v == Route(Top.path).var
       IN  /\ v \in SpellTrue =>
                /\ TopAfter.w.status = StatusOK
                /\ Envelope(TopAfter.w).error = ""
                /\ store'[Top.svc].handleFailures
           /\ v \in SpellFalse =>
                /\ TopAfter.w.status = StatusOK
                /\ Envelope(TopAfter.w).error = ""
                /\ ~store'[Top.svc].handleFailures
           /\ v \notin SpellTrue \cup SpellFalse =>
                /\ HoldsError(TopAfter.w, Top.svc, StatusBadRequest,
                              errHandleFailures)
                /\ store' = store]_vars

\* The token TRUE has set the flag, and later the word tru was refused and
\* left it set.
ExactlyTheTokensWitness ==
  /\ stack # <<>>
  /\ Top.pc = "done"
  /\ Top.path = <<"graceful", "tru">>
  /\ Top.w.status = StatusBadRequest
  /\ store[Ingress].handleFailures

----------------------------------------------------------------------------
\* C19: the body of an echo response of status 200 carries the headers the
\* request came with, as they came; the echo response of the drawn error
\* (status 500, internal failure) carries no headers.
EchoCarriesHeaders ==
  [][\A n \in Draws :
       /\ echoRespond(n) =>
            /\ TopAfter.pc = "done"
            /\ TopAfter.w.status = StatusOK
            /\ Len(TopAfter.w.body) = 1
            /\ Envelope(TopAfter.w).headers = Top.hdr
       /\ (echoRoll(n) /\ TopAfter.pc = "done") =>
            /\ HoldsError(TopAfter.w, Top.svc, StatusInternalServerError,
                          errInternal)
            /\ Envelope(TopAfter.w).headers = <<>>]_vars

\* The echo of the second hop has answered a request that came with the
\* Proxied-By of the first.
EchoCarriesHeadersWitness ==
  /\ Len(stack) = 2
  /\ Top.handler = "echoHandler"
  /\ Top.pc = "done"
  /\ Top.w.status = StatusOK
  /\ Top.hdr # <<>>
  /\ Envelope(Top.w).headers = Top.hdr

\* C19 as the specification has it: the body of every echo response, that
\* of the drawn error too, carries the headers the request came with.
EchoAlwaysCarriesHeaders ==
  \A i \in 1..Len(stack) :
    (stack[i].handler = "echoHandler" /\ stack[i].pc = "done") =>
      /\ Len(stack[i].w.body) = 1
      /\ Envelope(stack[i].w).headers = stack[i].hdr

----------------------------------------------------------------------------
\* The Content-Type values sent with the response of writer w.
SentContentTypes(w) == {w.sent[k] : k \in 1..Len(w.sent)}

\* C20: an echo that read a duplicate-header percentage of 100 and passed
\* the error draw has called WriteHeader with status 200 twice, and its
\* response is sent, ahead of the body, with the Content-Type values
\* text/html and application/json.
DoubleHeadersSent ==
  \A i \in 1..Len(stack) :
    (/\ stack[i].handler = "echoHandler"
     /\ stack[i].pc = "done"
     /\ stack[i].hd = 100
     /\ stack[i].w.status = StatusOK) =>
      /\ stack[i].w.nWriteHeader = 2
      /\ {"text/html", "application/json"} \subseteq SentContentTypes(stack[i].w)

----------------------------------------------------------------------------
\* The body b is one envelope, of service name.
EnvelopeOf(b, name) == Len(b) = 1 /\ b[1].service = name

\* C21: an envelope that a handler writes carries the ServiceName of its
\* instance, and a proxying hop hands on the body of its next hop as it is
\* or writes an envelope of its own; so the service of an envelope that
\* came through hops is the name of the instance that wrote it.
ServiceIsProducer ==
  [][/\ Return =>
          LET caller == stack[Len(stack) - 1]
              w      == stack'[Len(stack')].w
          IN  \/ w.body = <<>>
              \/ TopResult.kind = "http" /\ w.body = TopResult.body
              \/ EnvelopeOf(w.body, caller.svc)
     /\ (stack # <<>> /\ Len(stack') = Len(stack) /\ Top.pc # "await"
           /\ TopAfter.w.body # Top.w.body) =>
          EnvelopeOf(TopAfter.w.body, Top.svc)
     /\ Deliver => (resp'.kind = "http" => resp'.body = Top.w.body)]_vars

\* The client holds an envelope that the third instance wrote and two hops
\* handed on.
ServiceIsProducerWitness ==
  /\ stack = <<>>
  /\ resp.kind = "http"
  /\ Len(recv) = 3
  /\ EnvelopeOf(resp.body, "C")

----------------------------------------------------------------------------
\* The names of the instrumenters the configuration provides.
Provided == {boot.cfg.Instrumenters[i] : i \in 1..Len(boot.cfg.Instrumenters)}

\* The configured name is one of zipkin and skywalking.
Supported == boot.cfg.ObservabilityInstrumenter \in {"zipkin", "skywalking"}

\* C22: the validation of the tracing facade reports an error when the
\* configured name is not zipkin or skywalking, and when it is but no
\* provided instrumenter has that name; it reports none only when the name
\* is supported and provided.  Startup goes on to PreRun only then.
FacadeValidation ==
  /\ [][obsValidate =>
          LET failed == boot'.errs # {}
          IN  /\ ~Supported => failed
              /\ (Supported /\ boot.cfg.ObservabilityInstrumenter \notin Provided)
                   => failed
              /\ ~failed <=>
                   (Supported /\ boot.cfg.ObservabilityInstrumenter \in Provided)]_vars
  /\ [](boot.pc \in {"prerun", "serve", "stop", "stopped"} =>
          (Supported /\ boot.cfg.ObservabilityInstrumenter \in Provided))

\* The facade has refused skywalking, which is supported, because only
\* zipkin was provided.
FacadeValidationWitness ==
  /\ boot.pc = "failed"
  /\ boot.cfg.ObservabilityInstrumenter = "skywalking"
  /\ boot.cfg.Instrumenters = <<"zipkin">>
  /\ boot.errs = {"instrumenter not provided"}

----------------------------------------------------------------------------
\* C23: from the PreRun of the facade on, its delegate is the provided
\* instrumenter of the configured name; Tracer, SpanFromContext, Middleware,
\* Transport, Serve and GracefulStop each go to the delegate; and no step
\* changes the delegate once it is set.
OneDelegate ==
  /\ []((boot.pc \in {"serve", "stop", "stopped"}
           \/ (boot.pc = "prerun" /\ boot.step > 1)) =>
          /\ boot.delegate \in 1..Len(boot.cfg.Instrumenters)
          /\ boot.cfg.Instrumenters[boot.delegate] =
               boot.cfg.ObservabilityInstrumenter)
  /\ [][boot'.last # boot.last => boot'.last.to = boot'.delegate]_vars
  /\ [][boot.delegate # 0 => boot'.delegate = boot.delegate]_vars

\* The facade that was configured for skywalking, the second instrumenter
\* provided, has served calls and has stopped.
OneDelegateWitness ==
  /\ boot.pc = "stopped"
  /\ boot.delegate = 2
  /\ boot.cfg.Instrumenters[2] = "skywalking"
  /\ boot.last = [op |-> "GracefulStop", to |-> 2]
  /\ boot.sp # NoAdapter

----------------------------------------------------------------------------
\* The reporter endpoint of the backend that the configuration selects is
\* malformed, and the backend is to make its reporter from it.
MalformedEndpoint ==
  /\ boot.cfg.Reporter = "nil"
  /\ boot.cfg.Address \in {":9411", "a%b"}

\* C24: the HTTP service serves only under a configuration whose backend
\* name is supported and provided, whose listen address splits into host
\* and port, and whose reporter endpoint is well formed.
ServesOnlyValidated ==
  boot.http = "serving" =>
    /\ Supported
    /\ boot.cfg.ObservabilityInstrumenter \in Provided
    /\ boot.cfg.ListenAddress = ":8000"
    /\ ~MalformedEndpoint

----------------------------------------------------------------------------
\* C25: on the span that SpanFromContext gives for a context without an
\* active span, for either backend, no call of TraceID, Tag or Finish
\* panics.
NoopSpanUsable ==
  (boot.sp # NoAdapter /\ ~boot.sp.active) => ~boot.panic

----------------------------------------------------------------------------
\* C27: a backend service opens at most one reporter of its own, in PreRun,
\* and closes it once: in GracefulStop, or in the PreRun that failed to make
\* its tracer; while it serves the reporter is open.  A reporter that the
\* caller set is never closed.  No step of the lifecycle panics.
ReporterLifecycle ==
  \A i \in 1..Len(boot.svc) :
    LET s == boot.svc[i]
    IN  /\ s.opened <= 1
        /\ s.closed <= s.opened
        /\ s.givenClosed = 0
        /\ boot.cfg.Reporter = "given" => s.opened = 0
        /\ i # boot.delegate => s.opened = 0
        /\ boot.pc \in {"stopped", "failed"} => s.closed = s.opened
        /\ (boot.pc = "serve" /\ i = boot.delegate) =>
             /\ s.closed = 0
             /\ s.opened = (IF boot.cfg.Reporter = "nil" THEN 1 ELSE 0)
        /\ ~s.panic

\* The service that made its reporter has served and stopped: one reporter
\* opened, one closed.
ReporterLifecycleWitness ==
  /\ boot.pc = "stopped"
  /\ boot.delegate # 0
  /\ boot.svc[boot.delegate].ownsReporter
  /\ boot.svc[boot.delegate].opened = 1
  /\ boot.svc[boot.delegate].closed = 1

----------------------------------------------------------------------------
\* C26: in each of the three modes and whatever the interleaving, the span
\* of a unit of the emulator is started under the unit's name, tagged once
\* with the duration while it is not finished, is open during the sleep and
\* is finished once when the unit has returned; a finished span is not
\* touched again (the next request starts spans of its own).
SpanInOrder ==
  /\ [](\A i \in Procs :
          /\ unit[i] = "idle" <=> span[i] = NoSpan
          /\ span[i] # NoSpan =>
               /\ mode \in Modes
               /\ span[i].name = <<"proc", i>>
               /\ span[i].tags = << <<"duration", ed, 0>> >>
               /\ span[i].finished <= 1
          /\ unit[i] = "sleep" => span[i].finished = 0
          /\ unit[i] = "done" => span[i].finished = 1)
  /\ [][\A i \in Procs :
          /\ span[i].finished >= 1 => span'[i] \in {span[i], NoSpan}
          /\ (span[i] # NoSpan /\ span'[i] = NoSpan) => epc = "returned"]_vars

\* In the parallel mode the last unit has returned, its span finished once,
\* while the first still sleeps with its span open.
SpanInOrderWitness ==
  /\ mode = "parallel"
  /\ unit[NumProcs - 1] = "done"
  /\ span[NumProcs - 1].finished = 1
  /\ unit[0] = "sleep"
  /\ span[0].tags = << <<"duration", ed, 0>> >>
  /\ span[0].finished = 0

----------------------------------------------------------------------------
\* The fields of Endpoints that the setters write.
SetterFields == {"errors", "headers", "duration", "handleFailures"}

\* The step of a setter on the top frame, when it answers 200: of the store
\* only the field of this instance changes, to the value the confirmation
\* message of its envelope states.
SetsOnly(field, text) ==
  TopAfter.w.status = StatusOK =>
    /\ \A s \in Svc \ {Top.svc} : store'[s] = store[s]
    /\ \A f \in SetterFields \ {field} : store'[Top.svc][f] = store[Top.svc][f]
    /\ TopAfter.w.wrote
    /\ Len(TopAfter.w.body) = 1
    /\ Envelope(TopAfter.w).service = Top.svc
    /\ Envelope(TopAfter.w).code = StatusOK
    /\ Envelope(TopAfter.w).error = ""
    /\ Envelope(TopAfter.w).message.text = text
    /\ Envelope(TopAfter.w).message.val =
         (CASE field = "errors" -> I64(store'[Top.svc].errors)
            [] field = "headers" -> I64(store'[Top.svc].headers)
            [] field = "duration" -> store'[Top.svc].duration
            [] field = "handleFailures" -> <<store'[Top.svc].handleFailures>>)

\* C28: a setter that succeeds replaces its own field of its instance and
\* no other, and answers 200 with its confirmation message; and the errors
\* field that setErrors writes is the one that proxy and echoHandler read
\* for their failure draw.
SetterFrame ==
  [][/\ setErrors => SetsOnly("errors", "errors percentage set to")
     /\ setDoubleHeaders =>
          SetsOnly("headers", "double headers percentage set to")
     /\ setLatency => SetsOnly("duration", "duration set to")
     /\ setHandleFailures => SetsOnly("handleFailures", "handle failures set to")
     /\ proxy => TopAfter.e = store[Top.svc].errors
     /\ echoHandler => TopAfter.e = store[Top.svc].errors
     /\ \A n \in Draws :
          /\ proxyRoll(n) =>
               (IsFailure(n, Top.e) =>
                  HoldsError(TopAfter.w, Top.svc, StatusInternalServerError,
                             errInternal))
          /\ echoRoll(n) =>
               (IsFailure(n, Top.e) =>
                  HoldsError(TopAfter.w, Top.svc, StatusInternalServerError,
                             errInternal))]_vars

\* The ingress, whose errors were set to 50, has set its double headers to
\* 100 and confirmed it.
SetterFrameWitness ==
  /\ stack # <<>>
  /\ Top.svc = Ingress
  /\ Top.handler = "setDoubleHeaders"
  /\ Top.pc = "done"
  /\ Top.w.status = StatusOK
  /\ store[Ingress].errors = 50
  /\ store[Ingress].headers = 100

----------------------------------------------------------------------------
\* What a frame has read from the store of its instance.
ReadValues(f) == <<f.d, f.e, f.h, f.hd>>

\* C30: a proxy or echo request works with the latency, the error
\* percentage, the absorption flag and the double-header percentage it read
\* when it started: a setter that commits while the request sleeps or waits
\* for its next hop leaves the request as it is, and the failure draw, the
\* double-header draw and the absorption of a failure go by the values read,
\* whatever the store holds by then.
ReadAtStart ==
  [][/\ proxy =>
          ReadValues(TopAfter) =
            <<store[Top.svc].duration, store[Top.svc].errors,
              store[Top.svc].handleFailures, Top.hd>>
     /\ echoHandler =>
          ReadValues(TopAfter) =
            <<store[Top.svc].duration, store[Top.svc].errors, Top.h,
              store[Top.svc].headers>>
     /\ \A s \in ConcurrentTargets, path \in ConcurrentPaths :
          Concurrent(s, path) => stack' = stack
     /\ \A i \in 1..Len(stack) :
          (i <= Len(stack') /\ stack[i].pc # "recv") =>
             ReadValues(stack'[i]) = ReadValues(stack[i])
     /\ \A n \in Draws :
          /\ proxyRoll(n) =>
               (IsFailure(n, Top.e) <=>
                  (TopAfter.pc = "done" /\ ~TopAfter.panic /\
                   TopAfter.w.status = StatusInternalServerError))
          /\ echoRoll(n) =>
               (IsFailure(n, Top.e) <=>
                  (TopAfter.pc = "done" /\
                   TopAfter.w.status = StatusInternalServerError))
          /\ echoRespond(n) =>
               (IsFailure(n, Top.hd) <=> TopAfter.w.nWriteHeader = 2)
     /\ Return =>
          LET caller == stack[Len(stack) - 1]
              w == stack'[Len(stack')].w
          IN  (TopResult.kind = "http" /\ TopResult.status # StatusOK) =>
                IF caller.h THEN w.status = StatusOK
                            ELSE w.status = TopResult.status]_vars

\* An echo request that read 0 percent errors has passed its failure draw
\* while the store of its instance holds 100 percent, set during its sleep.
ReadAtStartWitness ==
  /\ stack # <<>>
  /\ Top.handler = "echoHandler"
  /\ Top.pc = "headers"
  /\ Top.e = 0
  /\ store[Top.svc].errors = 100

----------------------------------------------------------------------------
\* The errors of a set, those they wrap or hold, and so on.
RECURSIVE ErrorTree(_)
ErrorTree(S) ==
  LET T == S \cup UNION {TestErrors[e].wraps : e \in S}
  IN  IF T = S THEN S ELSE ErrorTree(T)

\* C29: HasError(err, target) is true when both are nil, false when one of
\* them is, and otherwise true exactly when target itself (not an error of
\* the same message) is in the tree of the errors that err wraps or holds;
\* it gives what each case of TestHasError expects.
HasErrorByIdentity ==
  probe.out # <<>> =>
    LET err == probe.in[1]
        target == probe.in[2]
        has == probe.out[1]
    IN  /\ (err = "nil" /\ target = "nil") => has
        /\ ((err = "nil") # (target = "nil")) => ~has
        /\ (err # "nil" /\ target # "nil") =>
             (has <=> target \in ErrorTree({err}))
        /\ \A c \in TestCases : (err = c[1] /\ target = c[2]) => (has = c[3])

\* HasError has found errSimple under two %w wrappers, a multi-error, a
\* pkg/errors wrapper and one more %w wrapper.
HasErrorByIdentityWitness ==
  probe = [in |-> <<"errWrapMulti", "errSimple">>, out |-> <<TRUE>>]

----------------------------------------------------------------------------
\* n milliseconds in nanoseconds, for the decimal digits cs of n, as an
\* unbounded natural.
ExactMillis(cs) == BigMulAll(BigOfDigits(cs, <<>>), <<1000, 1000>>)

\* C31: when setLatency accepts a bare number n of zero or more, the
\* duration it stores is n milliseconds: the 64-bit product of n and the
\* millisecond is the product itself, not a wrapped value.
MillisNeverWrap ==
  [][setLatency =>
       LET cs == Chars(Route(Top.path).var)
       IN  (cs # <<>> /\ AllDigits(cs) /\ TopAfter.w.status = StatusOK) =>
             BigNorm(store'[Top.svc].duration) = ExactMillis(cs)]_vars

----------------------------------------------------------------------------
\* The durations asked of the emulator that are no duration and no number,
\* or are negative.
BadDurations == {"abc", "-5"}

\* No unit of the emulator has started.
NoUnitStarted == \A i \in Procs : unit[i] = "idle" /\ span[i] = NoSpan

\* C32: a request to the emulator whose duration does not parse or is
\* negative is answered with status 400 and the duration error, whatever its
\* mode is (an unknown mode too), and no unit starts for it.
DurationBeforeMode ==
  /\ [][\A path \in EmuRequests :
          (emulateConcurrency(path) /\ path[4] \in BadDurations) =>
             /\ HoldsError(ew', Ingress, StatusBadRequest, errDuration)
             /\ epc' = "returned"]_vars
  /\ []((epc = "returned" /\ ew.wrote /\ Envelope(ew).error = errDuration) =>
          NoUnitStarted)

\* The emulator has answered with the duration error.
DurationBeforeModeWitness ==
  /\ epc = "returned"
  /\ HoldsError(ew, Ingress, StatusBadRequest, errDuration)
  /\ NoUnitStarted

----------------------------------------------------------------------------
\* C33: the absorption flag bears on a response of the next hop only.  A
\* proxy request that read the flag set and fails its own error draw answers
\* status 500 with the internal-failure envelope; and when the round trip
\* to the next hop gives no response, the hook does not run: the caller is
\* sent status 502 and no envelope, not the 200 of an absorbed failure.
AbsorbsNextHopOnly ==
  [][/\ \A n \in Draws :
          (proxyRoll(n) /\ Top.h /\ IsFailure(n, Top.e)) =>
             HoldsError(TopAfter.w, Top.svc, StatusInternalServerError,
                        errInternal)
     /\ (TransportError /\ Top.h) =>
          /\ TopAfter.w.status = StatusBadGateway
          /\ TopAfter.w.body = <<>>
     /\ (Return /\ stack[Len(stack) - 1].h /\ TopResult.kind # "http") =>
          /\ stack'[Len(stack')].w.status = StatusBadGateway
          /\ stack'[Len(stack')].w.body = <<>>]_vars

\* The ingress, which read the flag set, has found no server at its next
\* hop and has answered 502 with an empty body.
AbsorbsNextHopOnlyWitness ==
  /\ stack # <<>>
  /\ Top.handler = "proxy"
  /\ Top.h
  /\ Top.host = DownHost
  /\ Top.pc = "done"
  /\ Top.w.status = StatusBadGateway
  /\ Top.w.body = <<>>

----------------------------------------------------------------------------
\* The handlers that set a field of the store.
SetterHandlers ==
  {"setErrors", "setDoubleHeaders", "setLatency", "setHandleFailures"}

\* C34: the store changes only in the step of a setter that answers 200,
\* and then only at the instance of that setter: the emulator, proxy,
\* echoHandler, crash (its goroutine too) and a setter that refuses its
\* value leave all four fields of every instance as they were.
OnlySettersWrite ==
  [][store' # store =>
       /\ stack # <<>>
       /\ Top.pc = "recv"
       /\ Route(Top.path).handler \in SetterHandlers
       /\ Len(stack') = Len(stack)
       /\ TopAfter.handler = Route(Top.path).handler
       /\ TopAfter.w.status = StatusOK
       /\ \A s \in Svc \ {Top.svc} : store'[s] = store[s]]_vars

\* The process has set its errors to 100, has since served the crash
\* request and run the emulator, and still holds 100.
OnlySettersWriteWitness ==
  /\ store[Ingress] = Endpoints(100, 0, I64Zero, FALSE)
  /\ timers > 0
  /\ epc = "returned"
  /\ ew.status = StatusOK

----------------------------------------------------------------------------
\* The routes in the order PreRun registers them: the handler, the segments
\* of the template ("{}" is a variable) and whether the template is a prefix.
RouteTable ==
  <<[handler |-> "setDoubleHeaders", tpl |-> <<"headers", "{}">>, prefix |-> FALSE],
    [handler |-> "setErrors", tpl |-> <<"errors", "{}">>, prefix |-> FALSE],
    [handler |-> "setHandleFailures", tpl |-> <<"graceful", "{}">>, prefix |-> FALSE],
    [handler |-> "setLatency", tpl |-> <<"latency", "{}">>, prefix |-> FALSE],
    [handler |-> "crash", tpl |-> <<"crash", "{}">>, prefix |-> FALSE],
    [handler |-> "emulateConcurrency",
     tpl |-> <<"local", "{}", "latency", "{}">>, prefix |-> FALSE],
    [handler |-> "proxy", tpl |-> <<"proxy", "{}">>, prefix |-> TRUE],
    [handler |-> "echoHandler", tpl |-> <<>>, prefix |-> TRUE]>>

\* A path matches a route.
MatchesRoute(rt, path) ==
  /\ IF rt.prefix THEN Len(path) >= Len(rt.tpl) ELSE Len(path) = Len(rt.tpl)
  /\ \A i \in 1..Len(rt.tpl) :
       IF rt.tpl[i] = "{}" THEN path[i] # "" ELSE path[i] = rt.tpl[i]

\* The handlers of the routes a path matches, and that of the first of them.
MatchingRoutes(path) ==
  {i \in 1..Len(RouteTable) : MatchesRoute(RouteTable[i], path)}

FirstMatch(path) ==
  RouteTable[CHOOSE i \in MatchingRoutes(path) :
               \A j \in MatchingRoutes(path) : i <= j].handler

\* The paths that match no route but the last.
EchoOnlyPaths ==
  {<<"x">>, <<"">>, <<"proxy">>, <<"proxy", "">>, <<"errors", "50", "x">>,
   <<"errors", "">>, <<"headers", "100", "">>, <<"local", "serial">>,
   <<"crash">>}

\* C35: a GET request is handed to one handler, that of the first route in
\* registration order that its path matches, and stays with it; a path that
\* matches none of the specific routes (/proxy without a host, a setter path
\* with one more segment) goes to echoHandler; a request of another method
\* is handed to no handler and leaves the store as it is.
FirstRouteOnly ==
  /\ [](\A path \in RouterPaths \cup EmuRequests :
          Route(path).handler = FirstMatch(path))
  /\ [][/\ (stack # <<>> /\ Top.pc = "recv" /\ stack' # stack) =>
             /\ Len(stack') = Len(stack)
             /\ TopAfter.handler = FirstMatch(Top.path)
             /\ Top.path \in EchoOnlyPaths => TopAfter.handler = "echoHandler"
        /\ (stack # <<>> /\ stack' # <<>> /\ Top.handler # "") =>
             stack'[1].handler = Top.handler
        /\ \A method \in Methods \ {"GET"}, path \in RouterPaths :
             ServeHTTP(method, path) =>
               /\ stack' = <<>>
               /\ recv' = <<>>
               /\ store' = store
               /\ resp'.status = StatusMethodNotAllowed]_vars

\* The request for /errors/50/x is with echoHandler, and the store is as it
\* was.
FirstRouteOnlyWitness ==
  /\ stack # <<>>
  /\ Top.path = <<"errors", "50", "x">>
  /\ Top.handler = "echoHandler"
  /\ Top.pc = "done"
  /\ store[Ingress].errors # 50

----------------------------------------------------------------------------
\* The backends the facade was not configured for are as they were.
OthersUntouched ==
  \A i \in 1..Len(boot.svc) :
    boot.cfg.Instrumenters[i] # boot.cfg.ObservabilityInstrumenter =>
      boot'.svc[i] = boot.svc[i]

\* C36: PreRun, Serve and GracefulStop of the facade act on the backend of
\* the configured name and on no other; and PreRun of a facade that has no
\* backend of that name returns no error: it calls PreRun of its nil
\* delegate, which panics.
DelegateOnly ==
  [][/\ \A reporterErr \in BOOLEAN, tracerErr \in BOOLEAN :
          facadePreRun(reporterErr, tracerErr) =>
            /\ OthersUntouched
            /\ boot.cfg.ObservabilityInstrumenter \notin Provided =>
                 /\ boot'.panic
                 /\ boot'.errs = {}
                 /\ boot'.delegate = 0
                 /\ boot'.svc = boot.svc
     /\ facadeServe => OthersUntouched
     /\ facadeGracefulStop => OthersUntouched]_vars

\* The PreRun of a facade configured for jaeger, which no backend is, has
\* panicked and has returned nothing.
DelegateOnlyWitness ==
  /\ boot.pc = "direct"
  /\ boot.cfg.ObservabilityInstrumenter = "jaeger"
  /\ boot.panic
  /\ boot.errs = {}
  /\ \A i \in 1..Len(boot.svc) : boot.svc[i].closer = "nil"

----------------------------------------------------------------------------
\* GracefulStop of the i-th backend runs: called by itself or by the facade.
StopsBackend(i) ==
  backendGracefulStop(i) \/ (facadeGracefulStop /\ boot.delegate = i)

\* C37: Serve of a backend whose PreRun succeeded blocks, and returns (the
\* nil error) when GracefulStop closes the channel, not before; the first
\* GracefulStop after a PreRun that succeeded does not panic, and one that
\* comes before such a PreRun or after another GracefulStop does (it closes
\* a nil or a closed channel).
ServeUntilStopped ==
  /\ [](\A i \in 1..Len(boot.svc) :
          /\ boot.svc[i].serve = "nil" => boot.svc[i].closer = "closed"
          /\ boot.svc[i].serve = "blocked" =>
               boot.svc[i].tracer /\ boot.svc[i].closer = "open")
  /\ [][\A i \in 1..Len(boot.svc) :
          /\ (backendServe(i) /\ boot.svc[i].closer = "open") =>
               boot'.svc[i].serve = "blocked"
          /\ StopsBackend(i) =>
               IF boot.svc[i].closer = "open"
               THEN /\ ~boot'.svc[i].panic
                    /\ boot'.svc[i].closer = "closed"
                    /\ boot.svc[i].serve = "blocked" =>
                         boot'.svc[i].serve = "nil"
               ELSE boot'.svc[i].panic]_vars

\* A backend has served until its GracefulStop, and a second GracefulStop
\* has panicked.
ServeUntilStoppedWitness ==
  \E i \in 1..Len(boot.svc) :
    /\ boot.svc[i].tracer
    /\ boot.svc[i].serve = "nil"
    /\ boot.svc[i].closer = "closed"
    /\ boot.svc[i].panic

----------------------------------------------------------------------------
\* C38: when the endpoints' PreRun builds the handler, the PreRun of the
\* facade has made the delegate's tracer; the handler is the router inside
\* the tracing middleware, and the HTTP service holds it before it serves,
\* so a request served comes to the router through the middleware.  With no
\* instrumenter the endpoints' PreRun returns an error, no handler is built
\* and nothing serves.
MiddlewareFirst ==
  /\ [](boot.handler # "nil" =>
          /\ boot.handler = "Middleware(router)"
          /\ boot.delegate # 0
          /\ boot.svc[boot.delegate].tracer)
  /\ [](boot.http \in {"starting", "serving"} =>
          boot.Handler = "Middleware(router)")
  /\ [](boot.cfg.Instrumenter = "nil" =>
          /\ boot.handler = "nil"
          /\ boot.http = "off")
  /\ [][(epPreRun /\ boot.cfg.Instrumenter = "nil") =>
          /\ boot'.pc = "failed"
          /\ boot'.errs = {"missing tracer to attach to"}
          /\ boot'.handler = "nil"]_vars

\* The HTTP service serves the router inside the middleware of skywalking.
MiddlewareFirstWitness ==
  /\ boot.http = "serving"
  /\ boot.Handler = "Middleware(router)"
  /\ boot.last = [op |-> "Tracer", to |-> 2]
  /\ boot.svc[2].tracer

----------------------------------------------------------------------------
\* C40: GracefulStop of the HTTP service shuts the server down, if there is
\* one, and closes the listener, if there is one: it does not panic when
\* Serve never ran or made no listener, and leaves no server serving and no
\* listener open.  A Serve that gets no listener returns the error of
\* net.Listen and the server does not serve.
StopSafeListenErr ==
  /\ [][serviceGracefulStop =>
          /\ ~boot'.srv.panic
          /\ boot'.srv.Server = (IF boot.srv.Server = "nil" THEN "nil"
                                 ELSE "closed")
          /\ boot'.srv.l = (IF boot.srv.l = "nil" THEN "nil" ELSE "closed")
          /\ boot'.srv.ret # "blocked"]_vars
  /\ [][(serviceServe(TRUE) /\ ~serviceServe(FALSE)) =>
          /\ boot'.srv.ret = "listen"
          /\ boot'.srv.l = "nil"
          /\ boot'.srv.Server = boot.srv.Server
          /\ ~boot'.srv.panic]_vars
  /\ [](boot.srv.ret = "listen" => boot.srv.Server # "serving")

\* Serve made no listener and GracefulStop has shut the server down.
StopSafeListenErrWitness ==
  /\ boot.pc = "http"
  /\ boot.srv = [Server |-> "closed", l |-> "nil", ret |-> "listen",
                 panic |-> FALSE]

----------------------------------------------------------------------------
\* C39: Endpoints.Validate reports the error percentage that is not in 0
\* to 100, the header percentage that is not in 0 to 100 and the latency
\* below zero, each of them that is so and no other, and so returns no error
\* exactly when the three values are in range; it changes none of them.
ValidateAccumulates ==
  /\ [](boot.pc = "validated" =>
          \A s \in Svc :
            LET ep == store[s]
                errorsOk == 0 <= ep.errors /\ ep.errors <= 100
                headersOk == 0 <= ep.headers /\ ep.headers <= 100
                durationOk == ~I64Lt(ep.duration, 0)
            IN  /\ ("ep-errors" \in boot.errs) <=> ~errorsOk
                /\ ("ep-headers" \in boot.errs) <=> ~headersOk
                /\ ("ep-duration" \in boot.errs) <=> ~durationOk
                /\ boot.errs \subseteq {"ep-errors", "ep-headers", "ep-duration"}
                /\ (boot.errs = {}) <=> (errorsOk /\ headersOk /\ durationOk))
  /\ [][(\E s \in Svc : endpointsValidate(s)) => store' = store]_vars

\* The three values were out of range and Validate has reported the three.
ValidateAccumulatesWitness ==
  /\ boot.pc = "validated"
  /\ boot.errs = {"ep-errors", "ep-headers", "ep-duration"}
  /\ store["A"].errors = 101
  /\ store["A"].headers = -1
  /\ I64IsNeg(store["A"].duration)

====
